---- MODULE Spec2Model ----
(***************************************************************************)
(* Model of the iCloud-Frame-Sync synchronization subsystem:               *)
(*   - SyncScheduler (periodic driver with the isSyncing flag),            *)
(*   - the legacy PhotoSyncService (download, upload, delete, handled set),*)
(*   - the pairwise pass syncPhotosBetweenEndpoints over iCloudEndpoint    *)
(*     and FrameEndpoint.                                                  *)
(* Each part has its own specification; the variables of the other parts   *)
(* stay at their initial values under it.                                  *)
(***************************************************************************)
EXTENDS Integers, Sequences, FiniteSets, TLC

VARIABLES
  \* ---- SyncScheduler ----
  schedKind,        \* "fn": SyncScheduler of an injected work unit (start() lets the error of
                    \* the initial run through); "nway": SyncScheduler of endpoint pairs, whose
                    \* runSync() catches every error of the run
  timer,            \* this.timer: 0 is null, otherwise the id of the interval it references
  armed,            \* the intervals armed in the runtime (setInterval made, not cleared)
  timersMade,       \* number of setInterval calls so far (ids are handed out in order)
  isSyncing,        \* this.isSyncing
  intervalSeconds,  \* this.intervalSeconds
  runs,             \* executions of the sync work unit that are in flight
  invocations,      \* number of invocations of the sync work unit so far
  lastLog,          \* the last message the scheduler logged
  periods,          \* periods[t]: the period in seconds the interval t was armed with
  outcomes,         \* settled promises of start() calls and of interval callbacks that ran
                    \* the work unit: [id, by, result]
  stopped,          \* stop() has been called and start() has not been called since
  restarted,        \* updateInterval() restarted a running scheduler and stop() has not
                    \* been called since
  \* ---- legacy PhotoSyncService ----
  album,            \* the cloud album: sequence of assets [filename, deleted, present]
  albumSet,         \* this.album # null
  handledPhotos,    \* this.handledPhotos
  lpc,              \* position of the syncPhotos() run
  photos,           \* the list album.getPhotos() returned to the run
  idx,              \* index of the photo processPhoto is working on
  downloadCalls,    \* indices of photos whose download() was called in this run
  uploadCalls,      \* indices of photos for which frameClient.upload() was called in this run
  uploadedOk,       \* indices of photos whose upload resolved in this run
  deleteCalls,      \* indices of photos whose delete() was called in this run
  failedAt,         \* index of the photo whose download/upload/delete threw (0: none)
  failedOp,         \* the operation that threw ("none" when nothing threw)
  syncCalls,        \* number of syncPhotos() calls so far
  transferred,      \* album places of the photos this instance uploaded and whose delete attempt returned
  clearedSinceUpload, \* the run awaits photo.delete() of the photo it has uploaded and
                    \* clearHandledPhotos() was called since that upload succeeded
  \* ---- pairwise pass over endpoints ----
  ePhotos,          \* _photos of each endpoint
  frameInitialized, \* FrameEndpoint.initialized
  deviceArt,        \* the content ids of the art the Frame device holds, in the device's order
  ppc,              \* position of the pairwise pass
  pSrc, pDst,       \* source and destination endpoint of the pass
  pInit,            \* the pass is syncPhotosBetweenEndpoints (it initializes) or PhotoSyncService.syncPhotos
  sourcePhotos,     \* the source list the pass iterates
  destPhotoIds,     \* ids of the destination list fetched at the start of the pass
  pIdx,             \* index of the source photo being processed
  uploaded,         \* the pass's uploaded counter
  upCalls,          \* destination.upload calls of this pass in order: [i, id, ok]
  upErrors,         \* number of "Failed to upload photo" messages logged in this pass
  passCount,        \* number of passes started so far
  prevClean,        \* the previous pass was the same call on the same pair, every upload of
                    \* it succeeded, and the source list has not changed since
  \* ---- runSync() of the n-way SyncScheduler ----
  endpointCount,    \* this.endpoints.length
  ri, rj,           \* the loop variables i and j of runSync()
  rpc,              \* position of runSync(): "idle", "pass" (awaiting a pairwise pass),
                    \* "done" (the loops ended), "caught" (the catch block ran)
  passLog,          \* the pairs <<i, j>> whose pass this run has begun, in order
  passesEnded,      \* number of passes of this run that have settled
  runCount,         \* number of runSync() calls so far
  endpointsReplaced, \* setEndpoints() has been called since the last runSync() began
  \* ---- FrameEndpoint.readThumbnailData over its data-channel socket ----
  frame,            \* what the device sends on the data channel: [bytes, payload, wellFormed]
  wire,             \* the bytes of it the socket has not emitted yet
  sent,             \* the bytes the socket has emitted in 'data' events so far
  sock,             \* the socket: "none", "open", "ended" (socket.end()), "closed" (by the
                    \* peer), "errored", "destroyed"
  tpc,              \* position of readThumbnailData: "idle", "connect", "len", "header",
                    \* "payload" (awaiting that readExactly), "resolved", "rejected"
  want,             \* length asked of the pending readExactly call (0: no call pending)
  got,              \* the chunks the pending call has collected, concatenated
  callAt,           \* Len(sent) when the pending call was made
  reads,            \* the settled readExactly calls in order: [n, at, result, ok]
  fileLength,       \* thumbnailDataLen parsed from the header (0 before)
  thumb,            \* the buffer readThumbnailData resolved with
  disturbed,        \* the socket closed, errored or a timeout fired
  resume,           \* <<buffer>> when a readExactly resolved and the callback has not
                    \* resumed from its await yet, <<>> otherwise
  callNo,           \* number of readExactly calls with a positive length made so far
  settles,          \* settles[c]: how many times resolve or reject of call c was invoked
  listeners,        \* the calls whose data/error/close listeners are attached
  readTimers,       \* the calls whose read timer is set
  \* ---- FrameEndpoint.readThumbnailList ----
  batch,            \* the payloads of the batch the device sends, in order
  thumbnails,       \* the array thumbnails of readThumbnailList
  currentThumb,     \* currentThumb
  totalNumThumbnails, \* totalNumThumbnails
  listHeader,       \* the parsed header of the frame whose payload is being read
  \* ---- FrameEndpoint.getThumbnail / getThumbnailList ----
  gkind,            \* the retrieval in progress: "none", "get" (getThumbnail), "list"
  gpc,              \* its position: "idle", "art", "request", "read", "fallback", "done"
  gout,             \* its promise: [state, buf, list], state "pending", "resolved" or "rejected"
  gfailed,          \* what failed in it: "none", "art", "absent", "control", "connInfo", "socket"
  gfallback,        \* the outcome of getThumbnailAlternative in it ("none": not called)
  opened,           \* number of tls.connect() calls so far
  getCalls,         \* number of retrievals begun so far
  \* ---- the handled sets of PhotoSyncService instances ----
  heap,             \* the Set objects that exist: heap[r] is the content of object r
  handledRef,       \* handledRef[s]: the object this.handledPhotos of instance s refers
                    \* to (0: s has not been constructed)
  held,             \* the sets getHandledPhotos() has returned to callers: [ref, of]
  lastOp,           \* the last operation: [kind, inst, file, skipped]
  opNo,             \* number of operations so far
  \* ---- Application.start() / stop() ----
  appKind,          \* "legacy" (FrameManager and legacy PhotoSyncService) or "endpoint"
  apc,              \* position of the application: "idle", "init" (awaiting an
                    \* initialization step), "schedStart" (awaiting syncScheduler.start()),
                    \* "started", "rejected", "stopped"
  appLog,           \* the initialization steps of this start() that have settled: [step, outcome]
  appErr,           \* the error start() rejected with: the step that threw ("none": none)
  schedStarts,      \* number of syncScheduler.start() calls of this start()
  closed,           \* stop() has closed the connection of the frame endpoint
  appOps,           \* the endpoint operations the sync runs issued: the run and
                    \* whether the endpoint was closed when the run issued it
  \* ---- WebServer.getFrameArt ----
  hasFrameEndpoint, \* this.frameEndpoint is set
  fpc,              \* position of the handler: "idle", "list", "thumbs", "responded"
  artItems,         \* the art ids getRawAvailableArt() returned, in the device's order
  thumbOutcome,     \* thumbOutcome[k]: how getThumbnail of item k settled ("pending" before)
  mapped,           \* mapped[k]: the promise of the mapper of item k: [status, value]
  artResponse,      \* the response sent: [status, art]
  \* ---- the MFA requests of WebServer ----
  pendingMfaRequests, \* the keys of this.pendingMfaRequests
  mfaPromise,       \* mfaPromise[r]: the promise the MFA callback returned for request r:
                    \* "none" (not made), "pending", "resolved", "rejected"
  mfaTimers,        \* the requests whose 5-minute timer has not fired yet
  mfaSettles,       \* mfaSettles[r]: how many times resolve or reject of r was invoked
  mfaResponse       \* status of the last response of submitMfaCode / logoutICloud (0: none)

schedVars == <<schedKind, timer, armed, timersMade, isSyncing, intervalSeconds,
               runs, invocations, lastLog, periods, outcomes, stopped, restarted>>
legacyVars == <<album, albumSet, handledPhotos, lpc, photos, idx, downloadCalls,
                uploadCalls, uploadedOk, deleteCalls, failedAt, failedOp,
                syncCalls, transferred, clearedSinceUpload>>
pairVars == <<ePhotos, frameInitialized, deviceArt, ppc, pSrc, pDst, pInit,
              sourcePhotos, destPhotoIds, pIdx, uploaded, upCalls, upErrors,
              passCount, prevClean>>
nwayVars == <<endpointCount, ri, rj, rpc, passLog, passesEnded, runCount,
              endpointsReplaced>>
thumbVars == <<frame, wire, sent, sock, tpc, want, got, callAt, reads, fileLength,
               thumb, disturbed, resume, callNo, settles, listeners, readTimers,
               batch, thumbnails, currentThumb, totalNumThumbnails, listHeader>>
getVars == <<gkind, gpc, gout, gfailed, gfallback, opened, getCalls>>
handledVars == <<heap, handledRef, held, lastOp, opNo>>
appVars == <<appKind, apc, appLog, appErr, schedStarts, closed, appOps>>
artVars == <<hasFrameEndpoint, fpc, artItems, thumbOutcome, mapped, artResponse>>
mfaVars == <<pendingMfaRequests, mfaPromise, mfaTimers, mfaSettles, mfaResponse>>
webVars == <<artVars, mfaVars>>
lateVars == <<getVars, handledVars, appVars, webVars>>
otherVars == <<nwayVars, thumbVars, lateVars>>
vars == <<schedVars, legacyVars, pairVars, otherVars>>

\* ---- bounds of the model ----
MaxInvocations == 4
MaxTimers == 3
MaxPhotos == 3
MaxSyncCalls == 2
MaxPasses == 2
MaxEndpoints == 3
MaxRuns == 2
MaxPayload == 2
MaxBatch == 2
MaxCalls == 2
MaxOps == 5
MaxHeld == 1
MaxArt == 3
MaxMfa == 3
MaxAppOps == 2

Ids == {"p1", "p2"}
Intervals == {30, 60}
Endpoints == {"icloud", "frame"}
ArtIds == Ids \cup {"a1"}

Range(s) == {s[i] : i \in 1..Len(s)}

SeqsUpTo(S, n) == UNION {[1..k -> S] : k \in 0..n}

\* =========================================================================
\* SyncScheduler
\* =========================================================================

SchedInit ==
  /\ schedKind \in {"fn", "nway"}
  /\ timer = 0
  /\ armed = {}
  /\ timersMade = 0
  /\ isSyncing = FALSE
  /\ intervalSeconds = 60
  /\ runs = {}
  /\ invocations = 0
  /\ lastLog = "none"
  /\ periods = <<>>
  /\ outcomes = {}
  /\ stopped = FALSE
  /\ restarted = FALSE

\* start() arms one interval per call once its initial run is over; the model
\* hands out at most MaxTimers intervals.
CanStart ==
  /\ invocations < MaxInvocations
  /\ timersMade + Cardinality({r \in runs : r.by = "start"}) < MaxTimers

\* The synchronous part of start(): isSyncing = true and the work unit is
\* invoked; start() is then suspended on the work unit's promise.
BeginInitialRun ==
  /\ isSyncing' = TRUE
  /\ runs' = runs \cup {[id |-> invocations + 1, by |-> "start"]}
  /\ invocations' = invocations + 1

Start ==
  /\ CanStart
  /\ BeginInitialRun
  /\ stopped' = FALSE
  /\ UNCHANGED <<schedKind, timer, armed, timersMade, intervalSeconds, lastLog,
                 periods, outcomes, restarted>>

\* A start() that catches the error of its initial run and arms the interval
\* all the same.
StartRunSettlesAlwaysArms(r, ok) ==
  /\ r \in runs /\ r.by = "start"
  /\ runs' = runs \ {r}
  /\ isSyncing' = FALSE
  /\ timer' = timersMade + 1
  /\ armed' = armed \cup {timersMade + 1}
  /\ timersMade' = timersMade + 1
  /\ periods' = Append(periods, intervalSeconds)
  /\ outcomes' = outcomes \cup {[id |-> r.id, by |-> "start", result |-> "resolved"]}
  /\ lastLog' = IF ok THEN "started" ELSE "failed"
  /\ UNCHANGED <<schedKind, intervalSeconds, invocations, stopped, restarted>>

\* A start() that arms the interval with the default period of the class
\* whatever this.intervalSeconds holds.
StartRunSettlesDefaultPeriod(r, ok) ==
  /\ r \in runs /\ r.by = "start"
  /\ runs' = runs \ {r}
  /\ isSyncing' = FALSE
  /\ IF ok \/ schedKind = "nway"
       THEN /\ timer' = timersMade + 1
            /\ armed' = armed \cup {timersMade + 1}
            /\ timersMade' = timersMade + 1
            /\ periods' = Append(periods, 60)
            /\ outcomes' = outcomes \cup {[id |-> r.id, by |-> "start", result |-> "resolved"]}
            /\ lastLog' = IF ok THEN "started" ELSE "failed"
       ELSE /\ UNCHANGED <<timer, armed, timersMade, periods>>
            /\ outcomes' = outcomes \cup {[id |-> r.id, by |-> "start", result |-> "rejected"]}
            /\ lastLog' = lastLog
  /\ UNCHANGED <<schedKind, intervalSeconds, invocations, stopped, restarted>>

\* The work unit of the initial run settles: the finally block clears the
\* flag; unless the error propagates out of start(), setInterval arms a new
\* interval of this.intervalSeconds seconds, this.timer references it and
\* the promise of start() resolves; otherwise that promise rejects.
StartRunSettles(r, ok) ==
  /\ r \in runs /\ r.by = "start"
  /\ runs' = runs \ {r}
  /\ isSyncing' = FALSE
  /\ IF ok \/ schedKind = "nway"
       THEN /\ timer' = timersMade + 1
            /\ armed' = armed \cup {timersMade + 1}
            /\ timersMade' = timersMade + 1
            /\ periods' = Append(periods, intervalSeconds)
            /\ outcomes' = outcomes \cup {[id |-> r.id, by |-> "start", result |-> "resolved"]}
            /\ lastLog' = IF ok THEN "started" ELSE "failed"
       ELSE /\ UNCHANGED <<timer, armed, timersMade, periods>>
            /\ outcomes' = outcomes \cup {[id |-> r.id, by |-> "start", result |-> "rejected"]}
            /\ lastLog' = lastLog
  /\ UNCHANGED <<schedKind, intervalSeconds, invocations, stopped, restarted>>

\* The interval callback: a tick that finds isSyncing set logs and returns,
\* any other tick sets the flag and invokes the work unit.
Tick(t) ==
  /\ t \in armed
  /\ IF isSyncing
       THEN /\ lastLog' = "skipping"
            /\ UNCHANGED <<isSyncing, runs, invocations>>
       ELSE /\ invocations < MaxInvocations
            /\ isSyncing' = TRUE
            /\ runs' = runs \cup {[id |-> invocations + 1, by |-> "tick"]}
            /\ invocations' = invocations + 1
            /\ lastLog' = lastLog
  /\ UNCHANGED <<schedKind, timer, armed, timersMade, intervalSeconds,
                 periods, outcomes, stopped, restarted>>

\* A callback whose flag is cleared after the work unit only when it succeeds.
TickRunSettlesLeavesFlag(r, ok) ==
  /\ r \in runs /\ r.by = "tick"
  /\ runs' = runs \ {r}
  /\ isSyncing' = IF ok THEN FALSE ELSE isSyncing
  /\ lastLog' = IF ok THEN lastLog ELSE "failed"
  /\ outcomes' = outcomes \cup {[id |-> r.id, by |-> "tick", result |-> "resolved"]}
  /\ UNCHANGED <<schedKind, timer, armed, timersMade, intervalSeconds, invocations,
                 periods, stopped, restarted>>

\* The work unit of a tick settles: an error is caught and logged, the
\* finally block clears the flag, and the promise of the callback resolves.
TickRunSettles(r, ok) ==
  /\ r \in runs /\ r.by = "tick"
  /\ runs' = runs \ {r}
  /\ isSyncing' = FALSE
  /\ lastLog' = IF ok THEN lastLog ELSE "failed"
  /\ outcomes' = outcomes \cup {[id |-> r.id, by |-> "tick", result |-> "resolved"]}
  /\ UNCHANGED <<schedKind, timer, armed, timersMade, intervalSeconds, invocations,
                 periods, stopped, restarted>>

Stop ==
  /\ IF timer # 0
       THEN /\ armed' = armed \ {timer}
            /\ timer' = 0
            /\ lastLog' = "stopped"
       ELSE UNCHANGED <<armed, timer, lastLog>>
  /\ stopped' = TRUE
  /\ restarted' = FALSE
  /\ UNCHANGED <<schedKind, timersMade, isSyncing, intervalSeconds, runs, invocations,
                 periods, outcomes>>

\* updateInterval(n): with a timer set it calls stop() and then start(), whose
\* promise it does not await.
UpdateInterval(n) ==
  /\ intervalSeconds' = n
  /\ IF timer # 0
       THEN /\ CanStart
            /\ armed' = armed \ {timer}
            /\ timer' = 0
            /\ lastLog' = "stopped"
            /\ BeginInitialRun
            /\ stopped' = FALSE
            /\ restarted' = TRUE
       ELSE UNCHANGED <<armed, timer, lastLog, isSyncing, runs, invocations,
                        stopped, restarted>>
  /\ UNCHANGED <<schedKind, timersMade, periods, outcomes>>

isRunning == timer # 0

isSyncInProgress == isSyncing

getIntervalSeconds == intervalSeconds

\* =========================================================================
\* Legacy PhotoSyncService (fail-fast): syncPhotos / processPhoto
\* =========================================================================

Assets == [filename : Ids, deleted : BOOLEAN, present : {TRUE}]

LegacyInit ==
  /\ album \in SeqsUpTo(Assets, MaxPhotos)
  /\ albumSet = FALSE
  /\ handledPhotos = {}
  /\ lpc = "idle"
  /\ photos = <<>>
  /\ idx = 0
  /\ downloadCalls = {}
  /\ uploadCalls = {}
  /\ uploadedOk = {}
  /\ deleteCalls = {}
  /\ failedAt = 0
  /\ failedOp = "none"
  /\ syncCalls = 0
  /\ transferred = {}
  /\ clearedSinceUpload = FALSE

\* album.getPhotos(): the assets the cloud album holds, in album order; pos is
\* the asset's place in the album (the identity of the asset object).
GetPhotos ==
  LET here == {i \in 1..Len(album) : album[i].present}
      at(k) == CHOOSE i \in here : Cardinality({j \in here : j < i}) = k - 1
  IN  [k \in 1..Cardinality(here) |->
         [pos |-> at(k), filename |-> album[at(k)].filename,
          deleted |-> album[at(k)].deleted]]

\* initializePhotosService(albumName): this.album = albums.get(albumName),
\* which is undefined (and the call throws) when the album does not exist.
InitializePhotosService(found) ==
  /\ lpc \in {"idle", "done", "thrown"}
  /\ albumSet' = found
  /\ UNCHANGED <<album, handledPhotos, lpc, photos, idx, downloadCalls, uploadCalls,
                 uploadedOk, deleteCalls, failedAt, failedOp, syncCalls, transferred,
                 clearedSinceUpload>>

\* syncPhotos() up to its loop: throws when this.album is not set or when
\* getPhotos() rejects, returns at once on an empty list.
SyncPhotos(ok) ==
  /\ lpc \in {"idle", "done", "thrown"}
  /\ syncCalls < MaxSyncCalls
  /\ syncCalls' = syncCalls + 1
  /\ downloadCalls' = {} /\ uploadCalls' = {} /\ uploadedOk' = {} /\ deleteCalls' = {}
  /\ failedAt' = 0
  /\ IF ~albumSet
       THEN /\ lpc' = "thrown" /\ failedOp' = "notInitialized"
            /\ photos' = <<>> /\ idx' = 0
       ELSE IF ~ok
         THEN /\ lpc' = "thrown" /\ failedOp' = "getPhotos"
              /\ photos' = <<>> /\ idx' = 0
         ELSE /\ photos' = GetPhotos
              /\ failedOp' = "none"
              /\ IF Len(GetPhotos) = 0
                   THEN lpc' = "done" /\ idx' = 0
                   ELSE lpc' = "process" /\ idx' = 1
  /\ clearedSinceUpload' = FALSE
  /\ UNCHANGED <<album, albumSet, handledPhotos, transferred>>

\* The loop of syncPhotos: processPhoto returned, go to the next photo.
NextPhoto ==
  IF idx < Len(photos)
    THEN lpc' = "process" /\ idx' = idx + 1
    ELSE lpc' = "done" /\ idx' = idx
\* Mutant of Throws: the loop catches the exception and goes on with the
\* next photo.
ThrowsButContinues(op) ==
  /\ failedAt' = idx
  /\ failedOp' = op
  /\ NextPhoto

\* An exception inside processPhoto is not caught by syncPhotos: it leaves
\* the loop and rejects the promise of syncPhotos.
Throws(op) ==
  /\ lpc' = "thrown"
  /\ failedAt' = idx
  /\ failedOp' = op
  /\ idx' = idx

\* A check that skips deleted photos only.
SkippedOnlyDeleted(p) == p.deleted

\* processPhoto: photo.masterRecord.deleted or handledPhotos.has(photo.filename)
Skipped(p) == p.deleted \/ p.filename \in handledPhotos

\* A processPhoto that marks the photo it skips as handled.
ProcessSkipMarksHandled ==
  /\ lpc = "process"
  /\ Skipped(photos[idx])
  /\ handledPhotos' = handledPhotos \cup {photos[idx].filename}
  /\ NextPhoto
  /\ UNCHANGED <<album, albumSet, photos, downloadCalls, uploadCalls,
                 uploadedOk, deleteCalls, failedAt, failedOp, syncCalls, transferred,
                 clearedSinceUpload>>

\* processPhoto returns early for a deleted or an already handled photo.
ProcessSkip ==
  /\ lpc = "process"
  /\ Skipped(photos[idx])
  /\ NextPhoto
  /\ UNCHANGED <<album, albumSet, handledPhotos, photos, downloadCalls, uploadCalls,
                 uploadedOk, deleteCalls, failedAt, failedOp, syncCalls, transferred,
                 clearedSinceUpload>>
\* Mutant of Download: the photo is marked handled before it is transferred.
DownloadMarksHandled(ok) ==
  /\ lpc = "process"
  /\ ~Skipped(photos[idx])
  /\ downloadCalls' = downloadCalls \cup {idx}
  /\ handledPhotos' = handledPhotos \cup {photos[idx].filename}
  /\ IF ok
       THEN lpc' = "upload" /\ UNCHANGED <<idx, failedAt, failedOp>>
       ELSE Throws("download")
  /\ UNCHANGED <<album, albumSet, photos, uploadCalls, uploadedOk,
                 deleteCalls, syncCalls, transferred, clearedSinceUpload>>

\* await photo.download('original')
Download(ok) ==
  /\ lpc = "process"
  /\ ~Skipped(photos[idx])
  /\ downloadCalls' = downloadCalls \cup {idx}
  /\ IF ok
       THEN lpc' = "upload" /\ UNCHANGED <<idx, failedAt, failedOp>>
       ELSE Throws("download")
  /\ UNCHANGED <<album, albumSet, handledPhotos, photos, uploadCalls, uploadedOk,
                 deleteCalls, syncCalls, transferred, clearedSinceUpload>>
\* Mutant of Upload: a failed upload is swallowed and the photo is deleted
\* all the same.
UploadSwallowsError(ok) ==
  /\ lpc = "upload"
  /\ uploadCalls' = uploadCalls \cup {idx}
  /\ lpc' = "delete"
  /\ uploadedOk' = IF ok THEN uploadedOk \cup {idx} ELSE uploadedOk
  /\ clearedSinceUpload' = FALSE
  /\ UNCHANGED <<idx, failedAt, failedOp>>
  /\ UNCHANGED <<album, albumSet, handledPhotos, photos, downloadCalls, deleteCalls,
                 syncCalls, transferred>>

\* await this.frameClient.upload(...)
Upload(ok) ==
  /\ lpc = "upload"
  /\ uploadCalls' = uploadCalls \cup {idx}
  /\ IF ok
       THEN /\ lpc' = "delete"
            /\ uploadedOk' = uploadedOk \cup {idx}
            /\ UNCHANGED <<idx, failedAt, failedOp>>
       ELSE /\ Throws("upload")
            /\ UNCHANGED uploadedOk
  /\ clearedSinceUpload' = FALSE
  /\ UNCHANGED <<album, albumSet, handledPhotos, photos, downloadCalls, deleteCalls,
                 syncCalls, transferred>>

DeleteOutcomes == {"true", "false", "throw"}
\* Mutant of Delete: the photo is marked handled only when delete() returned
\* true.
DeleteMarksOnlyDeleted(outcome) ==
  /\ lpc = "delete"
  /\ deleteCalls' = deleteCalls \cup {idx}
  /\ album' = IF outcome = "true"
                THEN [album EXCEPT ![photos[idx].pos].present = FALSE]
                ELSE album
  /\ IF outcome = "throw"
       THEN Throws("delete") /\ UNCHANGED <<handledPhotos, transferred>>
       ELSE /\ handledPhotos' = IF outcome = "true"
                                  THEN handledPhotos \cup {photos[idx].filename}
                                  ELSE handledPhotos
            /\ transferred' = transferred \cup {photos[idx].pos}
            /\ NextPhoto
            /\ UNCHANGED <<failedAt, failedOp>>
  /\ clearedSinceUpload' = FALSE
  /\ UNCHANGED <<albumSet, photos, downloadCalls, uploadCalls, uploadedOk, syncCalls>>

\* if (await photo.delete()) {...}; this.handledPhotos.add(photo.filename)
Delete(outcome) ==
  /\ lpc = "delete"
  /\ deleteCalls' = deleteCalls \cup {idx}
  /\ album' = IF outcome = "true"
                THEN [album EXCEPT ![photos[idx].pos].present = FALSE]
                ELSE album
  /\ IF outcome = "throw"
       THEN Throws("delete") /\ UNCHANGED <<handledPhotos, transferred>>
       ELSE /\ handledPhotos' = handledPhotos \cup {photos[idx].filename}
            /\ transferred' = transferred \cup {photos[idx].pos}
            /\ NextPhoto
            /\ UNCHANGED <<failedAt, failedOp>>
  /\ clearedSinceUpload' = FALSE
  /\ UNCHANGED <<albumSet, photos, downloadCalls, uploadCalls, uploadedOk, syncCalls>>

getHandledPhotos == handledPhotos

clearHandledPhotos ==
  /\ handledPhotos # {} \/ (lpc = "delete" /\ ~clearedSinceUpload)
  /\ handledPhotos' = {}
  /\ clearedSinceUpload' = (lpc = "delete")
  /\ UNCHANGED <<album, albumSet, lpc, photos, idx, downloadCalls, uploadCalls,
                 uploadedOk, deleteCalls, failedAt, failedOp, syncCalls, transferred>>


\* =========================================================================
\* Pairwise pass (isolate-and-continue): syncPhotosBetweenEndpoints and the
\* n-way PhotoSyncService.syncPhotos, over iCloudEndpoint and FrameEndpoint
\* =========================================================================

\* The album assets the endpoints read; iCloudEndpoint does not look at the
\* deleted mark of an asset.
PairInit ==
  /\ album \in SeqsUpTo([filename : Ids, deleted : {FALSE}, present : {TRUE}], MaxPhotos)
  /\ ePhotos = [e \in Endpoints |-> <<>>]
  /\ frameInitialized = FALSE
  /\ deviceArt \in {l \in SeqsUpTo(Ids, Cardinality(Ids)) : Cardinality(Range(l)) = Len(l)}
  /\ ppc = "idle"
  /\ pSrc = "icloud" /\ pDst = "frame" /\ pInit = TRUE
  /\ sourcePhotos = <<>>
  /\ destPhotoIds = {}
  /\ pIdx = 0
  /\ uploaded = 0
  /\ upCalls = <<>>
  /\ upErrors = 0
  /\ passCount = 0
  /\ prevClean = FALSE

InitOutcomes == {"ok", "soft", "throw"}

\* iCloudEndpoint.initialize(): authenticates and lists the albums (either may
\* throw); _photos becomes the photos of the configured album when the album
\* exists ("soft": it does not) with id = filename.
iCloudInitialize(outcome) ==
  /\ ePhotos' = IF outcome = "ok"
                  THEN [ePhotos EXCEPT !["icloud"] = [i \in 1..Len(GetPhotos) |-> GetPhotos[i].filename]]
                  ELSE ePhotos
  /\ UNCHANGED frameInitialized

\* FrameEndpoint.initialize(): nothing when initialized; getDeviceInfo/connect
\* may throw; a failure of getArtModeInfo/getAvailableArt is caught and logged
\* ("soft") and leaves the endpoint uninitialized.
FrameInitialize(outcome) ==
  IF frameInitialized \/ outcome # "ok"
    THEN UNCHANGED <<ePhotos, frameInitialized>>
    ELSE /\ ePhotos' = [ePhotos EXCEPT !["frame"] = <<>>]
         /\ frameInitialized' = TRUE

InitializeThrows(e, outcome) ==
  /\ outcome = "throw"
  /\ e = "icloud" \/ ~frameInitialized

Initialize(e, outcome) ==
  IF e = "icloud" THEN iCloudInitialize(outcome) ELSE FrameInitialize(outcome)

AllOk(calls) == \A k \in 1..Len(calls) : calls[k].ok

\* A pass is called: syncPhotosBetweenEndpoints(s, d) (init) or
\* PhotoSyncService.syncPhotos() of the endpoint version (icloud to frame,
\* no initialize).
BeginPass(s, d, init) ==
  /\ ppc \in {"idle", "done", "thrown"}
  /\ passCount < MaxPasses
  /\ s # d
  /\ init \/ (s = "icloud" /\ d = "frame")
  /\ passCount' = passCount + 1
  /\ pSrc' = s /\ pDst' = d /\ pInit' = init
  /\ ppc' = IF init THEN "initSrc" ELSE "fetch"
  /\ prevClean' = (ppc = "done" /\ pSrc = s /\ pDst = d /\ pInit = init /\ AllOk(upCalls))
  /\ pIdx' = 0 /\ uploaded' = 0 /\ upCalls' = <<>> /\ upErrors' = 0
  /\ UNCHANGED <<album, ePhotos, frameInitialized, deviceArt, sourcePhotos, destPhotoIds>>

\* await source.initialize()
InitSource(outcome) ==
  /\ ppc = "initSrc"
  /\ Initialize(pSrc, outcome)
  /\ ppc' = IF InitializeThrows(pSrc, outcome) THEN "thrown" ELSE "initDst"
  /\ UNCHANGED <<album, deviceArt, pSrc, pDst, pInit, sourcePhotos, destPhotoIds,
                 pIdx, uploaded, upCalls, upErrors, passCount, prevClean>>

\* await destination.initialize()
InitDest(outcome) ==
  /\ ppc = "initDst"
  /\ Initialize(pDst, outcome)
  /\ ppc' = IF InitializeThrows(pDst, outcome) THEN "thrown" ELSE "fetch"
  /\ UNCHANGED <<album, deviceArt, pSrc, pDst, pInit, sourcePhotos, destPhotoIds,
                 pIdx, uploaded, upCalls, upErrors, passCount, prevClean>>

\* sourcePhotos = await source.photos; destPhotoIds = ids of destination.photos
FetchLists ==
  /\ ppc = "fetch"
  /\ sourcePhotos' = ePhotos[pSrc]
  /\ destPhotoIds' = Range(ePhotos[pDst])
  /\ prevClean' = (prevClean /\ ePhotos[pSrc] = sourcePhotos)
  /\ IF Len(ePhotos[pSrc]) = 0
       THEN ppc' = "done" /\ pIdx' = 0
       ELSE ppc' = "loop" /\ pIdx' = 1
  /\ UNCHANGED <<album, ePhotos, frameInitialized, deviceArt, pSrc, pDst, pInit,
                 uploaded, upCalls, upErrors, passCount>>
\* Mutant of AlreadyInDestination: the destination list is not consulted.
AlreadyInDestinationNever(id) == FALSE

\* destPhotoIds.has(photo.id)
AlreadyInDestination(id) == id \in destPhotoIds
\* Mutant of NextSourcePhoto: the loop ends one photo early.
NextSourcePhotoEndsEarly ==
  IF pIdx + 1 < Len(sourcePhotos)
    THEN ppc' = "loop" /\ pIdx' = pIdx + 1
    ELSE ppc' = "done" /\ pIdx' = pIdx

\* A loop that goes through the list once more when uploads failed.
NextSourcePhotoRetriesFailed ==
  IF pIdx < Len(sourcePhotos)
    THEN ppc' = "loop" /\ pIdx' = pIdx + 1
    ELSE IF upErrors > 0 /\ Len(upCalls) < Len(sourcePhotos)
      THEN ppc' = "loop" /\ pIdx' = 1
      ELSE ppc' = "done" /\ pIdx' = pIdx

\* for (const photo of sourcePhotos): the next photo, or the end of the pass
NextSourcePhoto ==
  IF pIdx < Len(sourcePhotos)
    THEN ppc' = "loop" /\ pIdx' = pIdx + 1
    ELSE ppc' = "done" /\ pIdx' = pIdx

\* The photo is in the destination list: log and continue.
PassSkip ==
  /\ ppc = "loop"
  /\ AlreadyInDestination(sourcePhotos[pIdx])
  /\ NextSourcePhoto
  /\ UNCHANGED <<album, ePhotos, frameInitialized, deviceArt, pSrc, pDst, pInit,
                 sourcePhotos, destPhotoIds, uploaded, upCalls, upErrors,
                 passCount, prevClean>>

\* destination.upload(photo) can resolve only on the Frame endpoint, with a
\* photo that is not a FramePhoto; iCloudEndpoint.upload always throws.
UploadCanResolve(d, s) == d = "frame" /\ s # "frame"
\* Mutant of UploadFailed: the upload error is not caught and ends the pass.
UploadFailedThrows ==
  /\ upErrors' = upErrors
  /\ uploaded' = uploaded
  /\ ppc' = "thrown" /\ pIdx' = pIdx

\* The catch block of the loop: log the error, go on with the next photo.
UploadFailed ==
  /\ upErrors' = upErrors + 1
  /\ uploaded' = uploaded
  /\ NextSourcePhoto

\* try { await destination.upload(photo); uploaded++ } catch { log }
\* newId is the content id the device gives the uploaded art.
PassUpload(ok, newId) ==
  /\ ppc = "loop"
  /\ ~AlreadyInDestination(sourcePhotos[pIdx])
  /\ ok => UploadCanResolve(pDst, pSrc)
  /\ upCalls' = Append(upCalls, [i |-> pIdx, id |-> sourcePhotos[pIdx], ok |-> ok])
  /\ IF ok
       THEN /\ deviceArt' = IF newId \in Range(deviceArt) THEN deviceArt
                                                              ELSE Append(deviceArt, newId)
            /\ uploaded' = uploaded + 1
            /\ upErrors' = upErrors
            /\ NextSourcePhoto
       ELSE /\ deviceArt' = deviceArt
            /\ UploadFailed
  /\ UNCHANGED <<album, ePhotos, frameInitialized, pSrc, pDst, pInit,
                 sourcePhotos, destPhotoIds, passCount, prevClean>>

\* FrameEndpoint.populatePhotos() / getAvailableArt(): _photos becomes the
\* art the device lists.
PopulatePhotos ==
  /\ ePhotos["frame"] # deviceArt
  /\ ePhotos' = [ePhotos EXCEPT !["frame"] = deviceArt]
  /\ UNCHANGED <<album, frameInitialized, deviceArt, ppc, pSrc, pDst, pInit,
                 sourcePhotos, destPhotoIds, pIdx, uploaded, upCalls, upErrors,
                 passCount, prevClean>>

\* =========================================================================
\* runSync() of the n-way SyncScheduler: the pairwise pass over every ordered
\* pair of the configured endpoints
\* =========================================================================

NwayInit ==
  /\ endpointCount \in 0..MaxEndpoints
  /\ ri = 0 /\ rj = 0
  /\ rpc = "idle"
  /\ passLog = <<>>
  /\ passesEnded = 0
  /\ runCount = 0
  /\ endpointsReplaced = FALSE

\* A scan that runs the pass for the pairs with i < j only.
RECURSIVE ScanUpperPairs(_, _, _)
ScanUpperPairs(i, j, n) ==
  IF i >= n THEN <<i, j>>
  ELSE IF j >= n THEN ScanUpperPairs(i + 1, 0, n)
  ELSE IF i < j THEN <<i, j>>
  ELSE ScanUpperPairs(i, j + 1, n)

\* The two for loops from the position (i, j) on, over n endpoints: the next
\* (i, j) at which the body calls the pass, or a position with i >= n when
\* the loops end.
RECURSIVE Scan(_, _, _)
Scan(i, j, n) ==
  IF i >= n THEN <<i, j>>
  ELSE IF j >= n THEN Scan(i + 1, 0, n)
  ELSE IF i # j THEN <<i, j>>
  ELSE Scan(i, j + 1, n)

\* runSync() runs on from loop position (i, j) up to its next await, or to
\* its end, where the finally block clears the flag.
ContinueRun(i, j, log) ==
  LET p == Scan(i, j, endpointCount) IN
    /\ ri' = p[1] /\ rj' = p[2]
    /\ IF p[1] >= endpointCount
         THEN rpc' = "done" /\ isSyncing' = FALSE /\ passLog' = log
         ELSE rpc' = "pass" /\ isSyncing' = TRUE /\ passLog' = Append(log, p)

nwaySchedRest == <<schedKind, timer, armed, timersMade, intervalSeconds, runs,
                   invocations, periods, outcomes, stopped, restarted>>

\* runSync() is called (by start() or by a tick that found the flag clear).
RunSync ==
  /\ rpc # "pass"
  /\ runCount < MaxRuns
  /\ runCount' = runCount + 1
  /\ passesEnded' = 0
  /\ endpointsReplaced' = FALSE
  /\ ContinueRun(0, 0, <<>>)
  /\ UNCHANGED <<endpointCount, lastLog>>

\* What a pass that resolved has uploaded to the device: nothing, or the
\* art a.
UploadedByPass(a) ==
  IF a = "none" \/ a \in Range(deviceArt) THEN deviceArt ELSE Append(deviceArt, a)

\* A runSync() whose catch block is inside the loops: after a pass that
\* threw it goes on with the next pair.
PassSettlesGoesOn(ok) ==
  /\ rpc = "pass"
  /\ passesEnded' = passesEnded + 1
  /\ ContinueRun(ri, rj + 1, passLog)
  /\ lastLog' = IF ok THEN lastLog ELSE "failed"
  /\ \E a \in ArtIds \cup {"none"} : deviceArt' = IF ok THEN UploadedByPass(a) ELSE deviceArt
  /\ UNCHANGED <<endpointCount, runCount, endpointsReplaced>>

\* The awaited syncPhotosBetweenEndpoints settles: the loops go on when it
\* resolved; when it threw (initialize() or a photos getter, before any
\* upload of the pass), the catch block logs and the run ends.
PassSettles(ok) ==
  /\ rpc = "pass"
  /\ passesEnded' = passesEnded + 1
  /\ IF ok
       THEN /\ ContinueRun(ri, rj + 1, passLog)
            /\ lastLog' = lastLog
            /\ \E a \in ArtIds \cup {"none"} : deviceArt' = UploadedByPass(a)
       ELSE /\ rpc' = "caught"
            /\ isSyncing' = FALSE
            /\ lastLog' = "failed"
            /\ UNCHANGED <<ri, rj, passLog, deviceArt>>
  /\ UNCHANGED <<endpointCount, runCount, endpointsReplaced>>

\* setEndpoints(endpoints)
SetEndpoints(n) ==
  /\ endpointCount' = n
  /\ endpointsReplaced' = TRUE
  /\ UNCHANGED <<ri, rj, rpc, passLog, passesEnded, runCount, isSyncing, lastLog>>

\* =========================================================================
\* FrameEndpoint.readThumbnailData and readExactly: one length-prefixed frame
\* read from the data-channel socket
\* =========================================================================

PayloadBytes == {1, 2}

\* The four bytes of a length, big-endian.
UInt32BE(n) ==
  <<(n \div 16777216) % 256, (n \div 65536) % 256, (n \div 256) % 256, n % 256>>

\* Buffer.readUInt32BE(0)
readUInt32BE(b) == b[1] * 16777216 + b[2] * 65536 + b[3] * 256 + b[4]

\* The character codes of {"fileLength": up to the value.
HeaderPrefix == <<123, 34, 102, 105, 108, 101, 76, 101, 110, 103, 116, 104, 34, 58>>

\* The decimal digits of n as character codes.
RECURSIVE DigitCodes(_)
DigitCodes(n) ==
  IF n < 10 THEN <<48 + n>> ELSE Append(DigitCodes(n \div 10), 48 + (n % 10))

\* The header text {"fileLength":n}
HeaderText(n) == HeaderPrefix \o DigitCodes(n) \o <<125>>

\* parseInt of a run of decimal digits
RECURSIVE DecimalValue(_)
DecimalValue(d) ==
  IF Len(d) = 0 THEN 0
  ELSE 10 * DecimalValue(SubSeq(d, 1, Len(d) - 1)) + (d[Len(d)] - 48)

\* parseInt(JSON.parse(headerBuffer.toString()).fileLength) on the header
\* texts of the model; -1 stands for JSON.parse throwing.
ParseHeader(h) ==
  IF /\ Len(h) >= Len(HeaderPrefix) + 2
     /\ SubSeq(h, 1, Len(HeaderPrefix)) = HeaderPrefix
     /\ h[Len(h)] = 125
     /\ \A k \in (Len(HeaderPrefix) + 1)..(Len(h) - 1) : h[k] \in 48..57
    THEN DecimalValue(SubSeq(h, Len(HeaderPrefix) + 1, Len(h) - 1))
    ELSE -1

\* A well-formed frame: the length of the header, the header, the payload.
WellFormedFrame(payload) ==
  [bytes |-> UInt32BE(Len(HeaderText(Len(payload)))) \o HeaderText(Len(payload)) \o payload,
   payload |-> payload, wellFormed |-> TRUE]

\* Frames that are not well-formed: fileLength 0, a header that is not JSON,
\* a header length of 0.
MalformedFrames ==
  { [bytes |-> UInt32BE(Len(HeaderText(0))) \o HeaderText(0) \o <<1>>,
     payload |-> <<>>, wellFormed |-> FALSE],
    [bytes |-> UInt32BE(3) \o <<123, 34, 125>> \o <<1>>,
     payload |-> <<>>, wellFormed |-> FALSE],
    [bytes |-> UInt32BE(0) \o <<1, 2>>,
     payload |-> <<>>, wellFormed |-> FALSE] }

Frames ==
  {WellFormedFrame(pl) : pl \in UNION {[1..k -> PayloadBytes] : k \in 1..MaxPayload}}
    \cup MalformedFrames

\* The header text {"fileLength":n,"num":k,"total":t} of a batch frame.
NumKey == <<44, 34, 110, 117, 109, 34, 58>>

TotalKey == <<44, 34, 116, 111, 116, 97, 108, 34, 58>>

ListHeaderText(n, k, t) ==
  HeaderPrefix \o DigitCodes(n) \o NumKey \o DigitCodes(k) \o TotalKey \o DigitCodes(t)
    \o <<125>>

\* The run of decimal digits of h that starts at position i.
RECURSIVE TakeDigits(_, _)
TakeDigits(h, i) ==
  IF i <= Len(h) /\ h[i] \in 48..57 THEN <<h[i]>> \o TakeDigits(h, i + 1) ELSE <<>>

\* h has the text t at position i.
HasAt(h, i, t) == i + Len(t) - 1 <= Len(h) /\ SubSeq(h, i, i + Len(t) - 1) = t

\* JSON.parse(headerBuffer.toString()) and parseInt of fileLength, num and
\* total on the header texts of the model; ok is FALSE when JSON.parse throws.
ParseListHeader(h) ==
  LET p1 == Len(HeaderPrefix) + 1
      d1 == TakeDigits(h, p1)
      p2 == p1 + Len(d1) + Len(NumKey)
      d2 == TakeDigits(h, p2)
      p3 == p2 + Len(d2) + Len(TotalKey)
      d3 == TakeDigits(h, p3)
  IN IF /\ HasAt(h, 1, HeaderPrefix) /\ d1 # <<>>
        /\ HasAt(h, p1 + Len(d1), NumKey) /\ d2 # <<>>
        /\ HasAt(h, p2 + Len(d2), TotalKey) /\ d3 # <<>>
        /\ HasAt(h, p3 + Len(d3), <<125>>) /\ p3 + Len(d3) = Len(h)
       THEN [ok |-> TRUE, fileLength |-> DecimalValue(d1), num |-> DecimalValue(d2),
             total |-> DecimalValue(d3)]
       ELSE [ok |-> FALSE, fileLength |-> 0, num |-> 0, total |-> 0]

NoHeader == [ok |-> FALSE, fileLength |-> 0, num |-> 0, total |-> 0]

\* The frame number k of total, with its payload.
BatchFrame(payload, k, total) ==
  UInt32BE(Len(ListHeaderText(Len(payload), k, total)))
    \o ListHeaderText(Len(payload), k, total) \o payload

\* The stream of a well-formed batch: the frames 0 .. total-1 one after the
\* other.
RECURSIVE BatchStream(_, _)
BatchStream(payloads, k) ==
  IF k > Len(payloads) THEN <<>>
  ELSE BatchFrame(payloads[k], k - 1, Len(payloads)) \o BatchStream(payloads, k + 1)

\* The payload of frame i of a batch whose payloads start with byte v: the
\* lengths go round 1 .. MaxPayload and the bytes alternate.
BatchPayload(i, v) ==
  [j \in 1..(((i - 1) % MaxPayload) + 1) |-> IF (i + j) % 2 = 0 THEN v ELSE 3 - v]

Batches == {[i \in 1..t |-> BatchPayload(i, v)] : t \in 1..MaxBatch, v \in PayloadBytes}

\* tls.connect() has been called; its callback has not run yet.
ThumbInit ==
  /\ frame \in Frames
  /\ wire = frame.bytes
  /\ sent = <<>>
  /\ sock = "open"
  /\ tpc = "connect"
  /\ want = 0 /\ got = <<>> /\ callAt = 0
  /\ reads = <<>>
  /\ fileLength = 0
  /\ thumb = <<>>
  /\ disturbed = FALSE
  /\ resume = <<>>
  /\ callNo = 0 /\ settles = <<>> /\ listeners = {} /\ readTimers = {}
  /\ batch = <<>>
  /\ thumbnails = <<>> /\ currentThumb = -1 /\ totalNumThumbnails = 1
  /\ listHeader = NoHeader

\* readThumbnailList: tls.connect() has been called.
ListInit ==
  /\ batch \in Batches
  /\ frame = [bytes |-> BatchStream(batch, 1), payload |-> <<>>, wellFormed |-> TRUE]
  /\ wire = frame.bytes
  /\ sent = <<>>
  /\ sock = "open"
  /\ tpc = "lconnect"
  /\ want = 0 /\ got = <<>> /\ callAt = 0
  /\ reads = <<>>
  /\ fileLength = 0
  /\ thumb = <<>>
  /\ disturbed = FALSE
  /\ resume = <<>>
  /\ callNo = 0 /\ settles = <<>> /\ listeners = {} /\ readTimers = {}
  /\ thumbnails = <<>> /\ currentThumb = -1 /\ totalNumThumbnails = 1
  /\ listHeader = NoHeader

\* A cleanup that leaves the timer of the call running.
CleanupKeepsTimer(c) == [listeners |-> listeners \ {c}, timers |-> readTimers]

\* cleanup() of the readExactly call c: its listeners are removed and its
\* timer is cleared.
Cleanup(c) == [listeners |-> listeners \ {c}, timers |-> readTimers \ {c}]

\* resolve or reject of the promise of call c is invoked.
Settle(c) == [settles EXCEPT ![c] = @ + 1]

listVars == <<thumbnails, currentThumb, totalNumThumbnails, listHeader>>

callVars == <<callNo, settles, listeners, readTimers>>

\* readExactly(socket, n) with n > 0 is called: the listeners are attached,
\* the timer is set and the call is pending.
AwaitRead(pc, n, log, fl) ==
  /\ tpc' = pc
  /\ want' = n /\ got' = <<>> /\ callAt' = Len(sent')
  /\ reads' = log
  /\ fileLength' = fl
  /\ callNo' = callNo + 1
  /\ settles' = Append(settles, 0)
  /\ listeners' = listeners \cup {callNo + 1}
  /\ readTimers' = readTimers \cup {callNo + 1}
  /\ resume' = <<>>
  /\ UNCHANGED <<thumb, sock>>

\* A rejection that leaves the socket as it is.
RejectThumbnailLeavesSocket(log, s) ==
  /\ tpc' = "rejected"
  /\ want' = 0 /\ got' = <<>> /\ callAt' = callAt
  /\ reads' = log
  /\ sock' = sock
  /\ resume' = <<>>
  /\ UNCHANGED <<thumb, fileLength>>

\* The catch block of the connect callback (socket.end(); reject(error)), or
\* the 'error' / 'timeout' listener of readThumbnailData: the promise rejects.
\* s is the socket afterwards: "ended" by the catch block, "destroyed" by the
\* 'timeout' listener, "closed" or "errored" when the runtime has closed it.
RejectThumbnail(log, s) ==
  /\ tpc' = "rejected"
  /\ want' = 0 /\ got' = <<>> /\ callAt' = callAt
  /\ reads' = log
  /\ sock' = s
  /\ resume' = <<>>
  /\ UNCHANGED <<thumb, fileLength>>

ResolvedRead(n, at, result) == [n |-> n, at |-> at, result |-> result, ok |-> TRUE]

RejectedRead(n, at) == [n |-> n, at |-> at, result |-> <<>>, ok |-> FALSE]

\* The end of the connect callback of a read: socket.end() and resolve.
ResolveThumbnail(log) ==
  /\ tpc' = "resolved"
  /\ sock' = "ended"
  /\ want' = 0 /\ got' = <<>> /\ callAt' = callAt
  /\ reads' = log
  /\ resume' = <<>>
  /\ fileLength' = fileLength

\* readThumbnailList after the payload of a frame: the buffer is pushed, num
\* and total are taken from the header, and the while loop reads on or ends.
AfterPayload(buf, h, log) ==
  /\ thumbnails' = Append(thumbnails, buf)
  /\ currentThumb' = h.num
  /\ totalNumThumbnails' = h.total
  /\ listHeader' = h
  /\ IF h.num + 1 < h.total
       THEN AwaitRead("llen", 4, log, fileLength)
       ELSE ResolveThumbnail(log) /\ UNCHANGED <<thumb, callVars>>

\* The connect callback goes on after an awaited readExactly resolved with
\* result, up to its next await or its end.
AfterRead(result, log) ==
  CASE tpc = "len" ->
         /\ LET headerLen == readUInt32BE(result) IN
              IF headerLen <= 0
                THEN /\ RejectThumbnail(
                          Append(log, ResolvedRead(headerLen, Len(sent'), <<>>)), "ended")
                     /\ UNCHANGED callVars
                ELSE AwaitRead("header", headerLen, log, fileLength)
         /\ UNCHANGED listVars
    [] tpc = "header" ->
         /\ LET thumbnailDataLen == ParseHeader(result) IN
              IF thumbnailDataLen <= 0
                THEN RejectThumbnail(log, "ended") /\ UNCHANGED callVars
                ELSE AwaitRead("payload", thumbnailDataLen, log, thumbnailDataLen)
         /\ UNCHANGED listVars
    [] tpc = "payload" ->
         /\ ResolveThumbnail(log)
         /\ thumb' = result
         /\ UNCHANGED <<callVars, listVars>>
    [] tpc = "llen" ->
         /\ LET headerLen == readUInt32BE(result) IN
              IF headerLen <= 0
                THEN /\ RejectThumbnail(
                          Append(log, ResolvedRead(headerLen, Len(sent'), <<>>)), "ended")
                     /\ UNCHANGED callVars
                ELSE AwaitRead("lheader", headerLen, log, fileLength)
         /\ UNCHANGED listVars
    [] tpc = "lheader" ->
         LET h == ParseListHeader(result) IN
           IF ~h.ok
             THEN RejectThumbnail(log, "ended") /\ UNCHANGED <<callVars, listVars>>
             ELSE IF h.fileLength <= 0
               THEN AfterPayload(<<>>, h,
                                 Append(log, ResolvedRead(h.fileLength, Len(sent'), <<>>)))
               ELSE /\ AwaitRead("lpayload", h.fileLength, log, h.fileLength)
                    /\ listHeader' = h
                    /\ UNCHANGED <<thumbnails, currentThumb, totalNumThumbnails>>
    [] tpc = "lpayload" -> AfterPayload(result, listHeader, log)

\* A read that resolves only once more than the asked length has arrived.
OnDataResolvesLate(total, n) == total > n

\* onData: totalLength >= length
OnDataResolves(total, n) == total >= n

\* The socket emits the next k bytes as one 'data' event; onData of the
\* pending readExactly collects the chunk and, when enough has arrived,
\* cleans up and resolves with the first want bytes of what it collected.
Data(k) ==
  /\ sock = "open" /\ want > 0 /\ callNo \in listeners
  /\ k \in 1..Len(wire)
  /\ LET chunk == SubSeq(wire, 1, k)
         all == got \o chunk
     IN /\ sent' = sent \o chunk
        /\ wire' = SubSeq(wire, k + 1, Len(wire))
        /\ IF OnDataResolves(Len(all), want)
             THEN /\ listeners' = Cleanup(callNo).listeners
                  /\ readTimers' = Cleanup(callNo).timers
                  /\ settles' = Settle(callNo)
                  /\ reads' = Append(reads, ResolvedRead(want, callAt, SubSeq(all, 1, want)))
                  /\ resume' = <<SubSeq(all, 1, want)>>
                  /\ want' = 0 /\ got' = <<>>
                  /\ UNCHANGED <<tpc, callAt, fileLength, thumb, sock, callNo>>
             ELSE /\ got' = all
                  /\ UNCHANGED <<tpc, want, callAt, reads, fileLength, thumb, sock,
                                 resume, callVars>>
  /\ UNCHANGED <<frame, disturbed, batch, listVars>>

\* The chunk sizes the list read is run with: a single byte, what the pending
\* call still needs, one byte more than that, and all that is left.
ChunkSizes ==
  {1, want - Len(got), want - Len(got) + 1, Len(wire)} \cap (1..Len(wire))

\* The connect callback resumes from the await with the resolved buffer.
Resume ==
  /\ resume # <<>>
  /\ sent' = sent
  /\ AfterRead(resume[1], reads)
  /\ UNCHANGED <<frame, wire, disturbed, batch>>

\* The TLS connection is established: the callback calls readExactly(socket, 4).
Connected ==
  /\ tpc = "connect" /\ sock = "open"
  /\ sent' = sent
  /\ AwaitRead("len", 4, reads, fileLength)
  /\ UNCHANGED <<frame, wire, disturbed, batch, listVars>>

\* The same for readThumbnailList, which starts its while loop.
ListConnected ==
  /\ tpc = "lconnect" /\ sock = "open"
  /\ sent' = sent
  /\ thumbnails' = <<>>
  /\ totalNumThumbnails' = 1
  /\ currentThumb' = -1
  /\ AwaitRead("llen", 4, reads, fileLength)
  /\ UNCHANGED <<frame, wire, disturbed, batch, listHeader>>

\* An onClose that resolves with the bytes it has.
OnCloseResolvesShort(c) ==
  /\ listeners' = Cleanup(c).listeners
  /\ readTimers' = Cleanup(c).timers
  /\ settles' = Settle(c)
  /\ reads' = Append(reads, [n |-> want, at |-> callAt, result |-> got, ok |-> TRUE])
  /\ resume' = <<got>>
  /\ want' = 0 /\ got' = <<>>
  /\ sock' = "closed"
  /\ UNCHANGED <<tpc, callAt, fileLength, thumb>>

\* onClose of call c: cleanup, and a call that has fewer bytes than it asked
\* for rejects; the catch block of the read then rejects the read.
OnClose(c) ==
  /\ listeners' = Cleanup(c).listeners
  /\ readTimers' = Cleanup(c).timers
  /\ IF Len(got) < want
       THEN /\ settles' = Settle(c)
            /\ RejectThumbnail(Append(reads, RejectedRead(want, callAt)), "closed")
       ELSE /\ sock' = "closed"
            /\ UNCHANGED <<settles, tpc, want, got, callAt, reads, resume, thumb, fileLength>>

\* The peer closes the connection while a call is pending.
PeerClose ==
  /\ sock = "open" /\ want > 0 /\ callNo \in listeners
  /\ OnClose(callNo)
  /\ disturbed' = TRUE
  /\ UNCHANGED <<frame, wire, sent, batch, callNo, listVars>>

\* The socket emits 'error': the listener of the read rejects the read, and
\* onError cleans up and rejects the pending call if there is one.
SocketError ==
  /\ sock = "open" /\ resume = <<>>
  /\ tpc \in {"connect", "len", "header", "payload", "lconnect", "llen", "lheader", "lpayload"}
  /\ IF want > 0 /\ callNo \in listeners
       THEN /\ listeners' = Cleanup(callNo).listeners
            /\ readTimers' = Cleanup(callNo).timers
            /\ settles' = Settle(callNo)
            /\ RejectThumbnail(Append(reads, RejectedRead(want, callAt)), "errored")
       ELSE /\ RejectThumbnail(reads, "errored")
            /\ UNCHANGED <<listeners, readTimers, settles>>
  /\ disturbed' = TRUE
  /\ UNCHANGED <<frame, wire, sent, batch, callNo, listVars>>

\* The timer of call c fires: onTimeout cleans up and rejects the call; the
\* catch block of the read then ends the socket and rejects the read.
ReadTimeout(c) ==
  /\ c \in readTimers /\ resume = <<>>
  /\ listeners' = Cleanup(c).listeners
  /\ readTimers' = Cleanup(c).timers \ {c}
  /\ settles' = Settle(c)
  /\ IF c = callNo /\ want > 0
       THEN /\ RejectThumbnail(Append(reads, RejectedRead(want, callAt)),
                               IF sock = "open" THEN "ended" ELSE sock)
            /\ disturbed' = TRUE
       ELSE UNCHANGED <<tpc, want, got, callAt, reads, sock, resume, thumb, fileLength,
                        disturbed>>
  /\ UNCHANGED <<frame, wire, sent, batch, callNo, listVars>>

\* The idle timeout of the socket fires before the connection is made (a
\* pending readExactly times out before the socket has been idle that long):
\* the 'timeout' listener of readThumbnailData destroys the socket.
SocketTimeout ==
  /\ sock = "open" /\ tpc = "connect"
  /\ RejectThumbnail(reads, "destroyed")
  /\ disturbed' = TRUE
  /\ UNCHANGED <<frame, wire, sent, batch, callVars, listVars>>

\* =========================================================================
\* FrameEndpoint.getThumbnail and getThumbnailList
\* =========================================================================

PendingPromise == [state |-> "pending", buf |-> <<>>, list |-> <<>>]

\* return of a buffer from getThumbnail.
ReturnBuffer(b) == [state |-> "resolved", buf |-> b, list |-> <<>>]

\* A catch block that throws the error on.
CatchRethrows == [state |-> "rejected", buf |-> <<>>, list |-> <<>>]

\* The catch block of getThumbnailList: return [].
CatchReturnsEmptyList == [state |-> "resolved", buf |-> <<>>, list |-> <<>>]

\* this.client.getAvailableArt() in getThumbnail.
ArtOutcomes == {"throws", "absent", "present"}

\* this.client.request(...) of get_thumbnail / get_thumbnail_list and what
\* its response carries.
RequestOutcomes == {"throws", "noResponse", "noConnInfo", "badConnInfo", "ok"}

\* The get_content request of getThumbnailAlternative: it throws, the
\* response has no content, content that is no string, a string that decodes
\* to no bytes, or base64 text of an image.
FallbackOutcomes == {"throws", "noContent", "nonString", "undecodable", "content"}

\* Buffer.from(response.content, 'base64') of the model's fallback content.
FallbackBuffer(o) == IF o = "content" THEN <<2, 1>> ELSE <<>>

\* A retrieval is called on the endpoint.
GetCall(kind) ==
  /\ gpc \in {"idle", "done"} /\ getCalls < MaxCalls
  /\ gkind' = kind
  /\ gpc' = IF kind = "get" THEN "art" ELSE "request"
  /\ gout' = PendingPromise /\ gfailed' = "none" /\ gfallback' = "none"
  /\ getCalls' = getCalls + 1
  /\ opened' = opened
  /\ frame' = [bytes |-> <<>>, payload |-> <<>>, wellFormed |-> FALSE]
  /\ wire' = <<>> /\ sent' = <<>> /\ sock' = "none" /\ tpc' = "idle" /\ want' = 0
  /\ got' = <<>> /\ callAt' = 0 /\ reads' = <<>> /\ fileLength' = 0 /\ thumb' = <<>>
  /\ disturbed' = FALSE /\ resume' = <<>>
  /\ callNo' = 0 /\ settles' = <<>> /\ listeners' = {} /\ readTimers' = {}
  /\ batch' = <<>> /\ thumbnails' = <<>> /\ currentThumb' = -1
  /\ totalNumThumbnails' = 1 /\ listHeader' = NoHeader

\* getThumbnail: getAvailableArt() settles and the art is looked up.
GetAvailableArt(o) ==
  /\ gkind = "get" /\ gpc = "art"
  /\ CASE o = "throws" -> gpc' = "done" /\ gout' = ReturnBuffer(<<>>) /\ gfailed' = "art"
       [] o = "absent" -> gpc' = "done" /\ gout' = ReturnBuffer(<<>>) /\ gfailed' = "absent"
       [] o = "present" -> gpc' = "request" /\ UNCHANGED <<gout, gfailed>>
  /\ UNCHANGED <<gkind, gfallback, opened, getCalls, thumbVars>>

\* tls.connect() of readThumbnailData (f is what the device will send) or of
\* readThumbnailList (b is the batch it will send).
OpenSocket(f, b) ==
  /\ opened' = opened + 1
  /\ frame' = f /\ batch' = b
  /\ wire' = f.bytes /\ sent' = <<>> /\ sock' = "open"
  /\ tpc' = IF gkind = "get" THEN "connect" ELSE "lconnect"
  /\ want' = 0 /\ got' = <<>> /\ callAt' = 0 /\ reads' = <<>> /\ fileLength' = 0
  /\ thumb' = <<>> /\ disturbed' = FALSE /\ resume' = <<>>
  /\ callNo' = 0 /\ settles' = <<>> /\ listeners' = {} /\ readTimers' = {}
  /\ thumbnails' = <<>> /\ currentThumb' = -1 /\ totalNumThumbnails' = 1
  /\ listHeader' = NoHeader

\* The get_thumbnail / get_thumbnail_list request settles: conn_info is
\* parsed and the data-channel read begins, or the error is caught.
Request(o) ==
  /\ gpc = "request"
  /\ IF o = "ok"
       THEN /\ gpc' = "read"
            /\ IF gkind = "get"
                 THEN \E f \in Frames : OpenSocket(f, <<>>)
                 ELSE \E b \in Batches :
                        OpenSocket([bytes |-> BatchStream(b, 1), payload |-> <<>>,
                                    wellFormed |-> TRUE], b)
            /\ UNCHANGED <<gout, gfailed>>
       ELSE /\ gfailed' = IF o \in {"throws", "noResponse"} THEN "control" ELSE "connInfo"
            /\ IF gkind = "get"
                 THEN gpc' = "fallback" /\ gout' = gout
                 ELSE gpc' = "done" /\ gout' = CatchReturnsEmptyList
            /\ UNCHANGED <<opened, thumbVars>>
  /\ UNCHANGED <<gkind, gfallback, getCalls>>

\* A getThumbnail that tries the alternative also after the socket path
\* delivered the thumbnail.
ReadSettlesPrefersFallback ==
  /\ gpc = "read" /\ tpc \in {"resolved", "rejected"}
  /\ IF gkind = "get"
       THEN /\ gpc' = "fallback" /\ gout' = gout
            /\ gfailed' = IF tpc = "resolved" THEN gfailed ELSE "socket"
       ELSE IF tpc = "resolved"
              THEN /\ gpc' = "done" /\ gfailed' = gfailed
                   /\ gout' = [state |-> "resolved", buf |-> <<>>, list |-> thumbnails]
              ELSE gpc' = "done" /\ gout' = CatchReturnsEmptyList /\ gfailed' = "socket"
  /\ UNCHANGED <<gkind, gfallback, opened, getCalls, thumbVars>>

\* The promise of readThumbnailData / readThumbnailList has settled and the
\* retrieval goes on after its await.
ReadSettles ==
  /\ gpc = "read" /\ tpc \in {"resolved", "rejected"}
  /\ IF gkind = "get"
       THEN IF tpc = "resolved" /\ Len(thumb) > 0
              THEN gpc' = "done" /\ gout' = ReturnBuffer(thumb) /\ gfailed' = gfailed
              ELSE gpc' = "fallback" /\ gout' = gout /\ gfailed' = "socket"
       ELSE IF tpc = "resolved"
              THEN /\ gpc' = "done" /\ gfailed' = gfailed
                   /\ gout' = [state |-> "resolved", buf |-> <<>>, list |-> thumbnails]
              ELSE gpc' = "done" /\ gout' = CatchReturnsEmptyList /\ gfailed' = "socket"
  /\ UNCHANGED <<gkind, gfallback, opened, getCalls, thumbVars>>

\* getThumbnailAlternative settles and getThumbnail returns its buffer, or
\* the empty buffer when that is empty.
GetThumbnailAlternative(o) ==
  /\ gkind = "get" /\ gpc = "fallback"
  /\ gfallback' = o
  /\ gpc' = "done"
  /\ gout' = ReturnBuffer(FallbackBuffer(o))
  /\ UNCHANGED <<gkind, gfailed, opened, getCalls, thumbVars>>

\* The data-channel read of the retrieval takes a step.
ReadStep ==
  /\ gpc = "read"
  /\ \/ Connected
     \/ ListConnected
     \/ \E k \in ChunkSizes : Data(k)
     \/ Resume
     \/ PeerClose
     \/ SocketError
     \/ \E c \in readTimers : ReadTimeout(c)
     \/ gkind = "get" /\ SocketTimeout
  /\ UNCHANGED getVars

\* =========================================================================
\* The handled sets of PhotoSyncService instances and of their callers
\* =========================================================================

Instances == {1, 2}

\* A field initializer that hands every instance the same Set object.
NewHandledSetShared(s) ==
  IF \E t \in Instances : handledRef[t] # 0
    THEN [heap |-> heap, ref |-> handledRef[CHOOSE t \in Instances : handledRef[t] # 0]]
    ELSE [heap |-> Append(heap, {}), ref |-> Len(heap) + 1]

\* private handledPhotos = new Set<string>(): a new, empty Set object.
NewHandledSet(s) == [heap |-> Append(heap, {}), ref |-> Len(heap) + 1]

\* A getter that hands out the internal Set object itself.
CopyOfHandledIsAlias(s) == [heap |-> heap, ref |-> handledRef[s]]

\* new Set(this.handledPhotos): a new Set object with the same members.
CopyOfHandled(s) == [heap |-> Append(heap, heap[handledRef[s]]), ref |-> Len(heap) + 1]

Op(kind, s, f, skipped) == [kind |-> kind, inst |-> s, file |-> f, skipped |-> skipped]

\* new PhotoSyncService(...)
Construct(s) ==
  /\ handledRef[s] = 0 /\ opNo < MaxOps
  /\ heap' = NewHandledSet(s).heap
  /\ handledRef' = [handledRef EXCEPT ![s] = NewHandledSet(s).ref]
  /\ lastOp' = Op("construct", s, "", FALSE)
  /\ opNo' = opNo + 1
  /\ held' = held

\* processPhoto of instance s on a photo that is not deleted and whose
\* transfer succeeds: skipped when handledPhotos has the filename, added to
\* handledPhotos otherwise.
ProcessPhoto(s, f) ==
  /\ handledRef[s] # 0 /\ opNo < MaxOps
  /\ IF f \in heap[handledRef[s]]
       THEN heap' = heap /\ lastOp' = Op("process", s, f, TRUE)
       ELSE /\ heap' = [heap EXCEPT ![handledRef[s]] = @ \cup {f}]
            /\ lastOp' = Op("process", s, f, FALSE)
  /\ opNo' = opNo + 1
  /\ UNCHANGED <<handledRef, held>>

\* clearHandledPhotos() of instance s: this.handledPhotos.clear()
ClearHandled(s) ==
  /\ handledRef[s] # 0 /\ opNo < MaxOps
  /\ heap' = [heap EXCEPT ![handledRef[s]] = {}]
  /\ lastOp' = Op("clear", s, "", FALSE)
  /\ opNo' = opNo + 1
  /\ UNCHANGED <<handledRef, held>>

\* getHandledPhotos() of instance s returns a set to its caller.
GetHandledPhotos(s) ==
  /\ handledRef[s] # 0 /\ opNo < MaxOps /\ Len(held) < MaxHeld
  /\ heap' = CopyOfHandled(s).heap
  /\ held' = Append(held, [ref |-> CopyOfHandled(s).ref, of |-> s])
  /\ lastOp' = Op("get", s, "", FALSE)
  /\ opNo' = opNo + 1
  /\ UNCHANGED handledRef

\* The caller adds f to, or deletes it from, the set number h it was given.
CallerAdd(h, f) ==
  /\ h \in 1..Len(held) /\ opNo < MaxOps
  /\ f \notin heap[held[h].ref]
  /\ heap' = [heap EXCEPT ![held[h].ref] = @ \cup {f}]
  /\ lastOp' = Op("callerAdd", held[h].of, f, FALSE)
  /\ opNo' = opNo + 1
  /\ UNCHANGED <<handledRef, held>>

CallerDelete(h, f) ==
  /\ h \in 1..Len(held) /\ opNo < MaxOps
  /\ f \in heap[held[h].ref]
  /\ heap' = [heap EXCEPT ![held[h].ref] = @ \ {f}]
  /\ lastOp' = Op("callerDelete", held[h].of, f, FALSE)
  /\ opNo' = opNo + 1
  /\ UNCHANGED <<handledRef, held>>

\* =========================================================================
\* Application.start() and stop()
\* =========================================================================

\* The awaited initialization steps of start(), in order: frameManager.
\* initialize(), authenticate() and initializePhotosService() of the legacy
\* application; iCloudEndpoint.initialize() and FrameEndpoint.initialize()
\* inside photoSyncService.initialize() of the endpoint version.
InitSteps(kind) ==
  IF kind = "legacy" THEN <<"frame", "auth", "photos">> ELSE <<"icloud", "frame">>

\* What a step can do: resolve, throw, or (FrameEndpoint.initialize only)
\* catch its own failure and resolve with the endpoint uninitialized.
StepOutcomes(kind, step) ==
  IF kind = "endpoint" /\ step = "frame" THEN {"ok", "soft", "throw"} ELSE {"ok", "throw"}

AppInit ==
  /\ appKind \in {"legacy", "endpoint"}
  /\ apc = "idle" /\ appLog = <<>> /\ appErr = "none" /\ schedStarts = 0
  /\ closed = FALSE /\ appOps = <<>>

\* start() is called and awaits its first initialization step.
AppStart ==
  /\ apc \in {"idle", "rejected", "stopped"}
  /\ apc' = "init" /\ appLog' = <<>> /\ appErr' = "none" /\ schedStarts' = 0
  /\ UNCHANGED <<appKind, closed, appOps, schedVars>>

\* The awaited step resolved: start() goes on to the next step or, after
\* the last one, calls syncScheduler.start() and awaits it.
AfterInitResolves(step) ==
  IF Len(appLog) + 1 < Len(InitSteps(appKind))
    THEN apc' = "init" /\ appErr' = appErr /\ schedStarts' = schedStarts
         /\ UNCHANGED schedVars
    ELSE /\ Start
         /\ apc' = "schedStart" /\ appErr' = appErr /\ schedStarts' = schedStarts + 1

\* A start() that logs the error of a step and goes on.
AfterInitThrowsGoesOn(step) == AfterInitResolves(step)

\* The awaited step threw: the catch block logs the error and throws it on.
AfterInitThrows(step) ==
  /\ apc' = "rejected" /\ appErr' = step /\ schedStarts' = schedStarts
  /\ UNCHANGED schedVars

\* The awaited initialization step settles; a frame step that succeeded has
\* connected the frame endpoint.
InitStep(o) ==
  /\ apc = "init"
  /\ LET step == InitSteps(appKind)[Len(appLog) + 1] IN
       /\ o \in StepOutcomes(appKind, step)
       /\ appLog' = Append(appLog, [step |-> step, outcome |-> o])
       /\ closed' = IF step = "frame" /\ o = "ok" THEN FALSE ELSE closed
       /\ IF o = "throw" THEN AfterInitThrows(step) ELSE AfterInitResolves(step)
  /\ UNCHANGED <<appKind, appOps>>

\* syncScheduler.start() settles and with it start().
SchedulerStartSettles(r, ok) ==
  /\ apc = "schedStart"
  /\ StartRunSettles(r, ok)
  /\ IF ok \/ schedKind = "nway"
       THEN apc' = "started" /\ appErr' = appErr
       ELSE apc' = "rejected" /\ appErr' = "scheduler"
  /\ UNCHANGED <<appKind, appLog, schedStarts, closed, appOps>>

\* stop(): syncScheduler.stop() and the close of the frame connection.
AppStop ==
  /\ apc = "started"
  /\ Stop
  /\ apc' = "stopped"
  /\ closed' = TRUE
  /\ UNCHANGED <<appKind, appLog, appErr, schedStarts, appOps>>

\* A run of the sync that is in flight goes on to its next awaited endpoint
\* operation (the fetch of the photo list, an upload); nothing in the run
\* looks at whether the application was stopped.
SyncOperation(r) ==
  /\ r \in runs
  /\ Len(appOps) < MaxAppOps
  /\ appOps' = Append(appOps, [run |-> r.id, closed |-> closed])
  /\ UNCHANGED <<appKind, apc, appLog, appErr, schedStarts, closed, schedVars>>

\* =========================================================================
\* WebServer.getFrameArt
\* =========================================================================

NoResponse == [status |-> 0, art |-> <<>>]

\* The art lists the device can report: distinct content ids.
ArtLists ==
  {l \in SeqsUpTo(ArtIds, MaxArt) : Cardinality(Range(l)) = Len(l)}

\* How getThumbnail(art.id) can settle for the mapper: with image data, with
\* the empty buffer, or with an exception (which the mapper catches).
ThumbnailOutcomes == {"data", "empty", "throws"}

\* The entry the mapper returns for an art item.
ArtEntry(id, o) ==
  [id |-> id, thumbnail |-> IF o = "data" THEN "data:image/jpeg;base64" ELSE "null"]

\* A mapper without its try/catch: an exception of getThumbnail rejects it.
MapperResultNoCatch(id, o) ==
  IF o = "throws" THEN [status |-> "rejected", value |-> ArtEntry(id, o)]
                  ELSE [status |-> "fulfilled", value |-> ArtEntry(id, o)]

\* The promise of the mapper: it returns an entry on both of its paths.
MapperResult(id, o) == [status |-> "fulfilled", value |-> ArtEntry(id, o)]

ArtInit ==
  /\ hasFrameEndpoint \in BOOLEAN /\ fpc = "idle" /\ artItems = <<>>
  /\ thumbOutcome = <<>> /\ mapped = <<>> /\ artResponse = NoResponse

\* The handler is called: 400 without a frame endpoint, else it awaits
\* getRawAvailableArt().
GetFrameArt ==
  /\ fpc = "idle"
  /\ IF hasFrameEndpoint
       THEN fpc' = "list" /\ artResponse' = artResponse
       ELSE fpc' = "responded" /\ artResponse' = [status |-> 400, art |-> <<>>]
  /\ UNCHANGED <<hasFrameEndpoint, artItems, thumbOutcome, mapped>>

\* getRawAvailableArt() resolves with the device's list (the empty list when
\* the device call failed) and the mapper of every item is started.
RawAvailableArt(l, ok) ==
  /\ fpc = "list"
  /\ artItems' = IF ok THEN l ELSE <<>>
  /\ thumbOutcome' = [k \in 1..Len(artItems') |-> "pending"]
  /\ mapped' = [k \in 1..Len(artItems') |-> [status |-> "pending", value |-> ArtEntry("", "empty")]]
  /\ fpc' = "thumbs"
  /\ UNCHANGED <<hasFrameEndpoint, artResponse>>

\* getThumbnail of item k settles and the mapper of the item with it.
ThumbnailSettles(k, o) ==
  /\ fpc = "thumbs" /\ k \in 1..Len(artItems) /\ mapped[k].status = "pending"
  /\ thumbOutcome' = [thumbOutcome EXCEPT ![k] = o]
  /\ mapped' = [mapped EXCEPT ![k] = MapperResult(artItems[k], o)]
  /\ UNCHANGED <<hasFrameEndpoint, fpc, artItems, artResponse>>

\* The values of the fulfilled promises of m from position k on, in order.
RECURSIVE FulfilledValues(_, _)
FulfilledValues(m, k) ==
  IF k > Len(m) THEN <<>>
  ELSE IF m[k].status = "fulfilled" THEN <<m[k].value>> \o FulfilledValues(m, k + 1)
       ELSE FulfilledValues(m, k + 1)

\* Promise.allSettled has resolved: the fulfilled results are sent.
RespondArt ==
  /\ fpc = "thumbs"
  /\ \A k \in 1..Len(mapped) : mapped[k].status # "pending"
  /\ artResponse' = [status |-> 200, art |-> FulfilledValues(mapped, 1)]
  /\ fpc' = "responded"
  /\ UNCHANGED <<hasFrameEndpoint, artItems, thumbOutcome, mapped>>

\* =========================================================================
\* The MFA requests of WebServer: the MFA callback of authenticateICloud,
\* submitMfaCode, logoutICloud and the 5-minute timer
\* =========================================================================

\* The request ids the callback draws (distinct random strings).
MfaIds == 1..MaxMfa

\* mfaCallback(): the request is stored under a new id, the id is sent to
\* the frontend and the timer is set; the promise is pending.
MfaCallback(r) ==
  /\ r \in MfaIds /\ mfaPromise[r] = "none"
  /\ \A q \in MfaIds : q < r => mfaPromise[q] # "none"
  /\ pendingMfaRequests' = pendingMfaRequests \cup {r}
  /\ mfaPromise' = [mfaPromise EXCEPT ![r] = "pending"]
  /\ mfaTimers' = mfaTimers \cup {r}
  /\ UNCHANGED <<mfaSettles, mfaResponse>>

\* submitMfaCode with mfaRequestId r and a code: 404 when no such request is
\* stored, otherwise the request is removed and its promise resolved.
SubmitMfaCode(r) ==
  /\ r \in MfaIds
  /\ IF r \in pendingMfaRequests
       THEN /\ pendingMfaRequests' = pendingMfaRequests \ {r}
            /\ mfaPromise' = [mfaPromise EXCEPT ![r] = IF @ = "pending" THEN "resolved" ELSE @]
            /\ mfaSettles' = [mfaSettles EXCEPT ![r] = @ + 1]
            /\ mfaResponse' = 200
       ELSE /\ mfaResponse' = 404
            /\ UNCHANGED <<pendingMfaRequests, mfaPromise, mfaSettles>>
  /\ UNCHANGED mfaTimers

\* logoutICloud: this.pendingMfaRequests.clear()
LogoutICloud ==
  /\ pendingMfaRequests' = {}
  /\ mfaResponse' = 200
  /\ UNCHANGED <<mfaPromise, mfaTimers, mfaSettles>>

\* The timer of request r fires: a request that is still stored is removed
\* and its promise rejected.
MfaTimeout(r) ==
  /\ r \in mfaTimers
  /\ mfaTimers' = mfaTimers \ {r}
  /\ IF r \in pendingMfaRequests
       THEN /\ pendingMfaRequests' = pendingMfaRequests \ {r}
            /\ mfaPromise' = [mfaPromise EXCEPT ![r] = IF @ = "pending" THEN "rejected" ELSE @]
            /\ mfaSettles' = [mfaSettles EXCEPT ![r] = @ + 1]
       ELSE UNCHANGED <<pendingMfaRequests, mfaPromise, mfaSettles>>
  /\ UNCHANGED mfaResponse

\* =========================================================================
\* Specifications
\* =========================================================================

SchedIdle ==
  /\ schedKind = "fn" /\ timer = 0 /\ armed = {} /\ timersMade = 0
  /\ isSyncing = FALSE /\ intervalSeconds = 60 /\ runs = {}
  /\ invocations = 0 /\ lastLog = "none"
  /\ periods = <<>> /\ outcomes = {} /\ stopped = FALSE /\ restarted = FALSE

LegacyIdle ==
  /\ album = <<>> /\ albumSet = FALSE /\ handledPhotos = {} /\ lpc = "idle"
  /\ photos = <<>> /\ idx = 0 /\ downloadCalls = {} /\ uploadCalls = {}
  /\ uploadedOk = {} /\ deleteCalls = {} /\ failedAt = 0 /\ failedOp = "none"
  /\ syncCalls = 0 /\ transferred = {} /\ clearedSinceUpload = FALSE

PairIdle ==
  /\ ePhotos = [e \in Endpoints |-> <<>>] /\ frameInitialized = FALSE
  /\ deviceArt = <<>> /\ ppc = "idle" /\ pSrc = "icloud" /\ pDst = "frame"
  /\ pInit = TRUE /\ sourcePhotos = <<>> /\ destPhotoIds = {} /\ pIdx = 0
  /\ uploaded = 0 /\ upCalls = <<>> /\ upErrors = 0 /\ passCount = 0
  /\ prevClean = FALSE

NwayIdle ==
  /\ endpointCount = 2 /\ ri = 0 /\ rj = 0 /\ rpc = "idle" /\ passLog = <<>>
  /\ passesEnded = 0 /\ runCount = 0 /\ endpointsReplaced = FALSE

ThumbIdle ==
  /\ frame = [bytes |-> <<>>, payload |-> <<>>, wellFormed |-> FALSE]
  /\ wire = <<>> /\ sent = <<>> /\ sock = "none" /\ tpc = "idle" /\ want = 0
  /\ got = <<>> /\ callAt = 0 /\ reads = <<>> /\ fileLength = 0 /\ thumb = <<>>
  /\ disturbed = FALSE /\ resume = <<>>
  /\ callNo = 0 /\ settles = <<>> /\ listeners = {} /\ readTimers = {}
  /\ batch = <<>> /\ thumbnails = <<>> /\ currentThumb = -1
  /\ totalNumThumbnails = 1 /\ listHeader = [ok |-> FALSE, fileLength |-> 0, num |-> 0, total |-> 0]

GetIdle ==
  /\ gkind = "none" /\ gpc = "idle" /\ gout = PendingPromise /\ gfailed = "none"
  /\ gfallback = "none" /\ opened = 0 /\ getCalls = 0

NoOp == [kind |-> "none", inst |-> 0, file |-> "", skipped |-> FALSE]

HandledIdle ==
  /\ heap = <<>> /\ handledRef = [s \in Instances |-> 0] /\ held = <<>>
  /\ lastOp = NoOp /\ opNo = 0

AppIdle ==
  /\ appKind = "legacy" /\ apc = "idle" /\ appLog = <<>> /\ appErr = "none"
  /\ schedStarts = 0 /\ closed = FALSE /\ appOps = <<>>

ArtIdle ==
  /\ hasFrameEndpoint = FALSE /\ fpc = "idle" /\ artItems = <<>> /\ thumbOutcome = <<>>
  /\ mapped = <<>> /\ artResponse = NoResponse

MfaInit ==
  /\ pendingMfaRequests = {}
  /\ mfaPromise = [r \in MfaIds |-> "none"]
  /\ mfaTimers = {}
  /\ mfaSettles = [r \in MfaIds |-> 0]
  /\ mfaResponse = 0

WebIdle == ArtIdle /\ MfaInit

LateIdle == GetIdle /\ HandledIdle /\ AppIdle /\ WebIdle

OtherIdle == NwayIdle /\ ThumbIdle /\ LateIdle

\* ---- the scheduler ----
InitSched == SchedInit /\ LegacyIdle /\ PairIdle /\ OtherIdle

NextSched ==
  \/ Start /\ UNCHANGED <<legacyVars, pairVars, otherVars>>
  \/ \E r \in runs, ok \in BOOLEAN : StartRunSettles(r, ok) /\ UNCHANGED <<legacyVars, pairVars, otherVars>>
  \/ \E t \in armed : Tick(t) /\ UNCHANGED <<legacyVars, pairVars, otherVars>>
  \/ \E r \in runs, ok \in BOOLEAN : TickRunSettles(r, ok) /\ UNCHANGED <<legacyVars, pairVars, otherVars>>
  \/ Stop /\ UNCHANGED <<legacyVars, pairVars, otherVars>>
  \/ \E n \in Intervals : UpdateInterval(n) /\ UNCHANGED <<legacyVars, pairVars, otherVars>>

SpecSched == InitSched /\ [][NextSched]_vars

\* ---- the legacy service ----
InitLegacy == SchedIdle /\ LegacyInit /\ PairIdle /\ OtherIdle

NextLegacy ==
  \/ \E found \in BOOLEAN : InitializePhotosService(found) /\ UNCHANGED <<schedVars, pairVars, otherVars>>
  \/ \E ok \in BOOLEAN : SyncPhotos(ok) /\ UNCHANGED <<schedVars, pairVars, otherVars>>
  \/ ProcessSkip /\ UNCHANGED <<schedVars, pairVars, otherVars>>
  \/ \E ok \in BOOLEAN : Download(ok) /\ UNCHANGED <<schedVars, pairVars, otherVars>>
  \/ \E ok \in BOOLEAN : Upload(ok) /\ UNCHANGED <<schedVars, pairVars, otherVars>>
  \/ \E o \in DeleteOutcomes : Delete(o) /\ UNCHANGED <<schedVars, pairVars, otherVars>>
  \/ clearHandledPhotos /\ UNCHANGED <<schedVars, pairVars, otherVars>>

SpecLegacy == InitLegacy /\ [][NextLegacy]_vars

\* ---- the pairwise pass ----
LegacyIdlePair ==
  /\ albumSet = FALSE /\ handledPhotos = {} /\ lpc = "idle"
  /\ photos = <<>> /\ idx = 0 /\ downloadCalls = {} /\ uploadCalls = {}
  /\ uploadedOk = {} /\ deleteCalls = {} /\ failedAt = 0 /\ failedOp = "none"
  /\ syncCalls = 0 /\ transferred = {} /\ clearedSinceUpload = FALSE

InitPair == SchedIdle /\ LegacyIdlePair /\ PairInit /\ OtherIdle

pairRest == <<albumSet, handledPhotos, lpc, photos, idx, downloadCalls, uploadCalls,
              uploadedOk, deleteCalls, failedAt, failedOp, syncCalls, transferred,
                 clearedSinceUpload>>

NextPair ==
  \/ \E s \in Endpoints, d \in Endpoints, init \in BOOLEAN :
       BeginPass(s, d, init) /\ UNCHANGED <<schedVars, pairRest, otherVars>>
  \/ \E o \in InitOutcomes : InitSource(o) /\ UNCHANGED <<schedVars, pairRest, otherVars>>
  \/ \E o \in InitOutcomes : InitDest(o) /\ UNCHANGED <<schedVars, pairRest, otherVars>>
  \/ FetchLists /\ UNCHANGED <<schedVars, pairRest, otherVars>>
  \/ PassSkip /\ UNCHANGED <<schedVars, pairRest, otherVars>>
  \/ \E ok \in BOOLEAN, newId \in ArtIds : PassUpload(ok, newId) /\ UNCHANGED <<schedVars, pairRest, otherVars>>
  \/ PopulatePhotos /\ UNCHANGED <<schedVars, pairRest, otherVars>>

SpecPair == InitPair /\ [][NextPair]_vars

\* ---- one sync run of either version of the sync: the legacy service or
\* the pairwise pass (a deployment runs one of the two), from an album with
\* no deleted asset ----
InitSync == InitPair

NextSync ==
  \/ PairIdle /\ NextLegacy
  \/ LegacyIdlePair /\ NextPair

SpecSync == InitSync /\ [][NextSync]_vars

\* ---- runSync() of the n-way scheduler ----
\* runSync() is called by start(), before the interval is armed, or by a
\* tick of the armed interval.
InitNway ==
  /\ schedKind = "nway" /\ timer \in {0, 1}
  /\ armed = (IF timer = 0 THEN {} ELSE {timer}) /\ timersMade = timer
  /\ isSyncing = FALSE /\ intervalSeconds = 60 /\ runs = {}
  /\ invocations = 0 /\ lastLog = "none"
  /\ periods = <<>> /\ outcomes = {} /\ stopped = FALSE /\ restarted = FALSE
  /\ LegacyIdle /\ PairIdle /\ NwayInit /\ ThumbIdle /\ LateIdle

nwayPairRest == <<ePhotos, frameInitialized, ppc, pSrc, pDst, pInit, sourcePhotos,
                  destPhotoIds, pIdx, uploaded, upCalls, upErrors, passCount, prevClean>>

NextNway ==
  \/ RunSync /\ UNCHANGED <<nwaySchedRest, legacyVars, pairVars, thumbVars, lateVars>>
  \/ \E ok \in BOOLEAN : PassSettles(ok) /\ UNCHANGED <<nwaySchedRest, legacyVars, nwayPairRest, thumbVars, lateVars>>
  \/ \E n \in 0..MaxEndpoints : SetEndpoints(n) /\ UNCHANGED <<nwaySchedRest, legacyVars, pairVars, thumbVars, lateVars>>

SpecNway == InitNway /\ [][NextNway]_vars

\* ---- one single-thumbnail read ----
InitThumb == SchedIdle /\ LegacyIdle /\ PairIdle /\ NwayIdle /\ ThumbInit /\ LateIdle

NextThumb ==
  \/ Connected /\ UNCHANGED <<schedVars, legacyVars, pairVars, nwayVars, lateVars>>
  \/ \E k \in 1..Len(wire) : Data(k) /\ UNCHANGED <<schedVars, legacyVars, pairVars, nwayVars, lateVars>>
  \/ PeerClose /\ UNCHANGED <<schedVars, legacyVars, pairVars, nwayVars, lateVars>>
  \/ SocketError /\ UNCHANGED <<schedVars, legacyVars, pairVars, nwayVars, lateVars>>
  \/ \E c \in readTimers : ReadTimeout(c) /\ UNCHANGED <<schedVars, legacyVars, pairVars, nwayVars, lateVars>>
  \/ Resume /\ UNCHANGED <<schedVars, legacyVars, pairVars, nwayVars, lateVars>>
  \/ SocketTimeout /\ UNCHANGED <<schedVars, legacyVars, pairVars, nwayVars, lateVars>>

SpecThumb == InitThumb /\ [][NextThumb]_vars

\* ---- one list read ----
InitList == SchedIdle /\ LegacyIdle /\ PairIdle /\ NwayIdle /\ ListInit /\ LateIdle

NextList ==
  \/ ListConnected /\ UNCHANGED <<schedVars, legacyVars, pairVars, nwayVars, lateVars>>
  \/ \E k \in ChunkSizes : Data(k) /\ UNCHANGED <<schedVars, legacyVars, pairVars, nwayVars, lateVars>>
  \/ Resume /\ UNCHANGED <<schedVars, legacyVars, pairVars, nwayVars, lateVars>>
  \/ PeerClose /\ UNCHANGED <<schedVars, legacyVars, pairVars, nwayVars, lateVars>>
  \/ SocketError /\ UNCHANGED <<schedVars, legacyVars, pairVars, nwayVars, lateVars>>
  \/ \E c \in readTimers : ReadTimeout(c) /\ UNCHANGED <<schedVars, legacyVars, pairVars, nwayVars, lateVars>>

SpecList == InitList /\ [][NextList]_vars

\* ---- retrievals of thumbnails, one after the other ----
InitGet == SchedIdle /\ LegacyIdle /\ PairIdle /\ NwayIdle /\ ThumbIdle /\ LateIdle

getRest == <<schedVars, legacyVars, pairVars, nwayVars, handledVars, appVars, webVars>>

NextGet ==
  \/ \E kind \in {"get", "list"} : GetCall(kind) /\ UNCHANGED getRest
  \/ \E o \in ArtOutcomes : GetAvailableArt(o) /\ UNCHANGED getRest
  \/ \E o \in RequestOutcomes : Request(o) /\ UNCHANGED getRest
  \/ ReadStep /\ UNCHANGED getRest
  \/ ReadSettles /\ UNCHANGED getRest
  \/ \E o \in FallbackOutcomes : GetThumbnailAlternative(o) /\ UNCHANGED getRest

SpecGet == InitGet /\ [][NextGet]_vars

\* ---- two service instances and a caller of getHandledPhotos() ----
InitHandled == SchedIdle /\ LegacyIdle /\ PairIdle /\ NwayIdle /\ ThumbIdle /\ LateIdle

handledRest == <<schedVars, legacyVars, pairVars, nwayVars, thumbVars, getVars, appVars, webVars>>

NextHandled ==
  \/ \E s \in Instances : Construct(s) /\ UNCHANGED handledRest
  \/ \E s \in Instances, f \in Ids : ProcessPhoto(s, f) /\ UNCHANGED handledRest
  \/ \E s \in Instances : ClearHandled(s) /\ UNCHANGED handledRest
  \/ \E s \in Instances : GetHandledPhotos(s) /\ UNCHANGED handledRest
  \/ \E h \in 1..MaxHeld, f \in Ids : CallerAdd(h, f) /\ UNCHANGED handledRest
  \/ \E h \in 1..MaxHeld, f \in Ids : CallerDelete(h, f) /\ UNCHANGED handledRest

SpecHandled == InitHandled /\ [][NextHandled]_vars

\* ---- the application: start(), the scheduler it starts, stop() ----
InitApp ==
  /\ AppInit
  /\ schedKind = (IF appKind = "legacy" THEN "fn" ELSE "nway")
  /\ timer = 0 /\ armed = {} /\ timersMade = 0
  /\ isSyncing = FALSE /\ intervalSeconds = 60 /\ runs = {}
  /\ invocations = 0 /\ lastLog = "none"
  /\ periods = <<>> /\ outcomes = {} /\ stopped = FALSE /\ restarted = FALSE
  /\ LegacyIdle /\ PairIdle /\ NwayIdle /\ ThumbIdle /\ GetIdle /\ HandledIdle /\ WebIdle

appRest == <<legacyVars, pairVars, nwayVars, thumbVars, getVars, handledVars, webVars>>

NextApp ==
  \/ AppStart /\ UNCHANGED appRest
  \/ \E o \in {"ok", "soft", "throw"} : InitStep(o) /\ UNCHANGED appRest
  \/ \E r \in runs, ok \in BOOLEAN : SchedulerStartSettles(r, ok) /\ UNCHANGED appRest
  \/ \E t \in armed : Tick(t) /\ UNCHANGED <<appVars, appRest>>
  \/ \E r \in runs, ok \in BOOLEAN : TickRunSettles(r, ok) /\ UNCHANGED <<appVars, appRest>>
  \/ AppStop /\ UNCHANGED appRest
  \/ \E r \in runs : SyncOperation(r) /\ UNCHANGED appRest

SpecApp == InitApp /\ [][NextApp]_vars

\* ---- one request for the Frame art listing ----
InitArt ==
  /\ SchedIdle /\ LegacyIdle /\ PairIdle /\ NwayIdle /\ ThumbIdle
  /\ GetIdle /\ HandledIdle /\ AppIdle /\ ArtInit /\ MfaInit

artRest == <<schedVars, legacyVars, pairVars, nwayVars, thumbVars, getVars, handledVars, appVars,
             mfaVars>>

NextArt ==
  \/ GetFrameArt /\ UNCHANGED artRest
  \/ \E l \in ArtLists, ok \in BOOLEAN : RawAvailableArt(l, ok) /\ UNCHANGED artRest
  \/ \E k \in 1..MaxArt, o \in ThumbnailOutcomes : ThumbnailSettles(k, o) /\ UNCHANGED artRest
  \/ RespondArt /\ UNCHANGED artRest

SpecArt == InitArt /\ [][NextArt]_vars

\* ---- the MFA requests of one web server ----
InitMfa ==
  /\ SchedIdle /\ LegacyIdle /\ PairIdle /\ NwayIdle /\ ThumbIdle
  /\ GetIdle /\ HandledIdle /\ AppIdle /\ ArtIdle /\ MfaInit

mfaRest == <<schedVars, legacyVars, pairVars, nwayVars, thumbVars, getVars, handledVars, appVars,
             artVars>>

NextMfa ==
  \/ \E r \in MfaIds : MfaCallback(r) /\ UNCHANGED mfaRest
  \/ \E r \in MfaIds : SubmitMfaCode(r) /\ UNCHANGED mfaRest
  \/ LogoutICloud /\ UNCHANGED mfaRest
  \/ \E r \in MfaIds : MfaTimeout(r) /\ UNCHANGED mfaRest

SpecMfa == InitMfa /\ [][NextMfa]_vars


\* =========================================================================
\* Claims
\* =========================================================================

\* C1: for one SyncScheduler, under every interleaving of start(), ticks,
\* stop() and updateInterval(), at most one execution of the sync work unit
\* is active at any time.
C1_AtMostOneRunActive == Cardinality(runs) <= 1

\* C2: photo.delete() is invoked on a source photo only after the upload of
\* that same photo has completed successfully in the same run.
C2_DeleteOnlyAfterUpload == deleteCalls \subseteq uploadedOk

C2_Witness ==
  /\ deleteCalls # {}
  /\ failedOp \in {"download", "upload"}

\* C3: in a pairwise pass destination.upload is never called for a source
\* photo whose id is in the destination list fetched at the start of the pass.
C3_NoUploadOfDestinationPhoto ==
  \A k \in 1..Len(upCalls) : upCalls[k].id \notin destPhotoIds

C3_Witness ==
  /\ ppc = "done"
  /\ upCalls # <<>>
  /\ \E i \in 1..Len(sourcePhotos) : sourcePhotos[i] \in destPhotoIds

\* C4: in a pairwise pass in which no upload fails, the upload calls are
\* exactly the source photos whose id is not in the destination list, each
\* once and in source order.
Wanted == {i \in 1..Len(sourcePhotos) : sourcePhotos[i] \notin destPhotoIds}

C4_ExactTransferSet ==
  (ppc = "done" /\ AllOk(upCalls)) =>
    /\ Len(upCalls) = Cardinality(Wanted)
    /\ {upCalls[k].i : k \in 1..Len(upCalls)} = Wanted
    /\ \A k \in 1..Len(upCalls) : upCalls[k].id = sourcePhotos[upCalls[k].i]
    /\ \A k \in 1..Len(upCalls) - 1 : upCalls[k].i < upCalls[k + 1].i

C4_Witness ==
  /\ ppc = "done"
  /\ AllOk(upCalls)
  /\ Len(upCalls) = 1
  /\ Len(sourcePhotos) = 2
  /\ destPhotoIds # {}

\* C5: after a pass in which every upload succeeded, a second pass over the
\* same pair with an unchanged source list performs no upload call.
C5_SecondPassUploadsNothing == prevClean => upCalls = <<>>

\* C6: if the download or the upload of a photo throws, that photo's
\* identifier is not in the handled set after the failed run.
C6_FailedPhotoNotHandled ==
  failedOp \in {"download", "upload"} =>
    photos[failedAt].filename \notin handledPhotos

C6_Witness ==
  /\ failedOp = "upload"
  /\ handledPhotos # {}

C8_FailFastAbort ==
  /\ [](failedOp \in {"download", "upload"} =>
          /\ lpc = "thrown"
          /\ failedAt \notin deleteCalls
          /\ (downloadCalls \cup uploadCalls \cup deleteCalls) \subseteq 1..failedAt)
  /\ [][(failedOp = "none" /\ failedOp' \in {"download", "upload"})
          => handledPhotos' = handledPhotos]_vars

C8_Witness ==
  /\ failedOp = "upload"
  /\ failedAt = 2
  /\ Len(photos) = 3
  /\ photos[1].filename \in handledPhotos

\* C9: under isolate-and-continue an exception from destination.upload is
\* caught and logged, every later source photo is still processed, the pass
\* does not throw because of it, and the uploaded count is the number of
\* upload calls that succeeded.
CallsWhere(b) == {k \in 1..Len(upCalls) : upCalls[k].ok = b}

C9_IsolateAndContinue ==
  /\ ppc = "thrown" => upCalls = <<>>
  /\ ppc \in {"loop", "done"} =>
       LET through == IF ppc = "done" THEN Len(sourcePhotos) ELSE pIdx - 1
       IN  /\ {upCalls[k].i : k \in 1..Len(upCalls)} = {i \in Wanted : i <= through}
           /\ uploaded = Cardinality(CallsWhere(TRUE))
           /\ upErrors = Cardinality(CallsWhere(FALSE))

C9_Witness ==
  /\ ppc = "done"
  /\ Len(upCalls) = 3
  /\ ~upCalls[1].ok /\ upCalls[2].ok /\ ~upCalls[3].ok
  /\ uploaded = 1

\* C10: a tick that fires while a run is in progress does not invoke the work
\* unit, and no invocation is made for it when the current run completes.
TickStep == \E t \in armed : Tick(t)

SettleStep ==
  \E r \in runs, ok \in BOOLEAN : StartRunSettles(r, ok) \/ TickRunSettles(r, ok)

C10_OverlappingTickDropped ==
  [][((runs # {} /\ TickStep) \/ SettleStep) => invocations' = invocations]_vars

\* C11: a work unit that fails during a tick is caught and logged inside the
\* callback: the promise of the callback never rejects, the failing settle
\* leaves the timer as it is, and a later tick that finds no run in progress
\* starts a run.
TickFailureStep == \E r \in runs : TickRunSettles(r, FALSE)

C11_TickFailureContained ==
  /\ [](\A o \in outcomes : o.by = "tick" => o.result = "resolved")
  /\ [][TickFailureStep =>
          (timer' = timer /\ armed' = armed /\ lastLog' = "failed")]_vars
  /\ [][(TickStep /\ runs = {}) => invocations' = invocations + 1]_vars

C11_Witness ==
  /\ timer # 0
  /\ lastLog = "failed"
  /\ \E o \in outcomes, r \in runs : o.by = "tick" /\ r.by = "tick" /\ r.id > o.id
\* C12: isSyncInProgress() is true exactly while a run started by the
\* scheduler is executing.
C12_FlagTracksRuns == isSyncInProgress <=> runs # {}
\* C13: start() invokes the work unit once and arms nothing in that step;
\* its promise is settled only when that run is no longer in flight; when
\* the initial run succeeds the settle invokes nothing, and isRunning() is
\* then true with a newly armed interval of this.intervalSeconds seconds;
\* before the first start() isRunning() and isSyncInProgress() are false.
StartCallStep == Start

C13_StartRunsThenArms ==
  /\ [](invocations = 0 => (~isRunning /\ ~isSyncInProgress))
  /\ [](\A o \in outcomes : o.by = "start" => \A r \in runs : r.id # o.id)
  /\ [](\A r \in runs : r.by = "start" => \A o \in outcomes : o.id # r.id)
  /\ [][StartCallStep =>
          (invocations' = invocations + 1 /\ timer' = timer /\ armed' = armed
             /\ timersMade' = timersMade)]_vars
  /\ [][(\E r \in runs : StartRunSettles(r, TRUE)) =>
          (/\ invocations' = invocations
           /\ timer' # 0 /\ timer' \notin armed /\ timer' \in armed'
           /\ periods'[timer'] = intervalSeconds')]_vars

C13_Witness ==
  /\ isRunning /\ timer \in armed
  /\ intervalSeconds = 30 /\ periods[timer] = 30
  /\ \E o \in outcomes : o.by = "start" /\ o.result = "resolved"
\* C14 as stated: whenever the work of the initial run of start() fails, the
\* promise of start() rejects and the settle arms no interval.
InitialRunFails(r) == StartRunSettles(r, FALSE)

Rejected(r) == [id |-> r.id, by |-> "start", result |-> "rejected"]

C14_InitialFailureRejects ==
  [][\A r \in runs : InitialRunFails(r) =>
        (Rejected(r) \in outcomes' /\ timer' = timer /\ armed' = armed)]_vars

\* C14 amended: under the fail-fast scheduler (the one of an injected work
\* unit) a failing initial run rejects the promise of start() and arms no
\* interval; only a start() whose promise resolved arms one, and ticks run
\* only from armed intervals.
C14_FailFastStartRejects ==
  /\ [][\A r \in runs : (schedKind = "fn" /\ InitialRunFails(r)) =>
          (/\ Rejected(r) \in outcomes'
           /\ timer' = timer /\ armed' = armed /\ timersMade' = timersMade)]_vars
  /\ [](timersMade =
          Cardinality({o \in outcomes : o.by = "start" /\ o.result = "resolved"}))
  /\ [](timersMade = 0 =>
          (~isRunning /\ \A r \in runs : r.by # "tick"))

C14_Witness ==
  /\ schedKind = "fn"
  /\ \E o \in outcomes : o.by = "start" /\ o.result = "rejected"
  /\ timersMade = 0 /\ ~isRunning /\ runs = {}
\* C15: from a call of stop() until the next call of start(), isRunning()
\* is false and the scheduler starts no run.
C15_StoppedStaysStopped ==
  /\ [](stopped => ~isRunning)
  /\ [][(stopped /\ stopped') => invocations' = invocations]_vars
\* C16: updateInterval(n) stores n; on a running scheduler it starts one
\* extra run, and once no start() is in flight any more the scheduler runs
\* with an interval of the stored period (as long as stop() is not called);
\* on a scheduler that is not running it starts no run and sets no timer.
StartInFlight == \E r \in runs : r.by = "start"

C16_UpdateIntervalRestarts ==
  /\ [][\A n \in Intervals : UpdateInterval(n) =>
          (/\ getIntervalSeconds' = n
           /\ isRunning => invocations' = invocations + 1
           /\ ~isRunning => (invocations' = invocations /\ ~isRunning'))]_vars
  /\ []((restarted /\ ~StartInFlight) =>
          (isRunning /\ timer \in armed /\ periods[timer] = intervalSeconds))
\* C17: within one run the photos are worked on in the order of the source
\* list: every download, upload and delete call is on the photo the loop is
\* at, the loop only moves forward, and every call made so far is on a photo
\* at or before the one the loop is at.
LegacyOps == downloadCalls \cup uploadCalls \cup deleteCalls

NewLegacyOps ==
  (downloadCalls' \ downloadCalls) \cup (uploadCalls' \ uploadCalls)
     \cup (deleteCalls' \ deleteCalls)

C17_InSourceOrder ==
  /\ [](\A k \in LegacyOps : k <= idx)
  /\ [][NewLegacyOps \subseteq {idx}]_vars
  /\ [][syncCalls' = syncCalls => idx' >= idx]_vars
  /\ [](\A k \in 1..Len(upCalls) : upCalls[k].i <= pIdx)
  /\ [][Len(upCalls') > Len(upCalls) =>
          (/\ upCalls' = Append(upCalls, upCalls'[Len(upCalls')])
           /\ upCalls'[Len(upCalls')].i = pIdx
           /\ upCalls'[Len(upCalls')].id = sourcePhotos[pIdx]
           /\ \A k \in 1..Len(upCalls) : upCalls[k].i < pIdx)]_vars
  /\ [][passCount' = passCount => pIdx' >= pIdx]_vars

C17_Witness ==
  /\ Len(upCalls) = 3
  /\ upCalls[1].i = 1 /\ upCalls[2].i = 2 /\ upCalls[3].i = 3
  /\ ~upCalls[1].ok /\ upCalls[2].ok
\* C18 as stated: when the run of a tick has ended, the pass has been run
\* exactly once for every ordered pair (i, j), i # j, of the configured
\* endpoints, in the order of the enumeration, one pass at a time.
AllPairs(n) == {p \in (0..(n - 1)) \X (0..(n - 1)) : p[1] # p[2]}

Before(p, q) == p[1] < q[1] \/ (p[1] = q[1] /\ p[2] < q[2])

InEnumerationOrder ==
  \A k \in 1..Len(passLog), l \in 1..Len(passLog) :
     k < l => Before(passLog[k], passLog[l])

RunEnded == rpc \in {"done", "caught"}

C19_ReadExactlyFirstBytes ==
  /\ want > 0 => Len(sent) - callAt < want
  /\ \A k \in 1..Len(reads) :
       (reads[k].ok /\ reads[k].n > 0) =>
         /\ Len(reads[k].result) = reads[k].n
         /\ reads[k].result = SubSeq(sent, reads[k].at + 1, reads[k].at + reads[k].n)

C19_Witness ==
  /\ Len(reads) >= 2
  /\ reads[2].ok /\ reads[2].n = Len(HeaderText(1))
  /\ reads[2].result = HeaderText(1)
  /\ Len(sent) > reads[2].at + reads[2].n
  /\ ~disturbed

\* C20: for a well-formed frame, once the socket has delivered all of its
\* bytes, in chunks of whatever sizes and with no close, error or timeout,
\* readThumbnailData has resolved with the payload.
C20_SingleFrameRoundTrip ==
  (frame.wellFormed /\ wire = <<>> /\ ~disturbed /\ resume = <<>>) =>
     (tpc = "resolved" /\ thumb = frame.payload)
\* C21: for a well-formed batch of frames num = 0 .. total-1, once the socket
\* has delivered the whole stream with no close, error or timeout, the list
\* read has stopped reading and has resolved with the payloads of the frames
\* in the order received.
C21_BatchReadReturnsPayloads ==
  (tpc \in {"llen", "lheader", "lpayload", "resolved", "rejected"}
     /\ wire = <<>> /\ ~disturbed /\ resume = <<>>) =>
     (tpc = "resolved" /\ want = 0 /\ listeners = {} /\ thumbnails = batch)

\* C22: when the socket closes or emits an error while a readExactly call has
\* collected fewer bytes than it asked for, the call rejects and the
\* thumbnail read fails with no payload; no call ever resolves with fewer
\* bytes than it asked for.
ShortReadStep ==
  /\ sock = "open" /\ sock' \in {"closed", "errored"}
  /\ want > 0 /\ Len(got) < want

C22_ShortReadRejects ==
  /\ [][ShortReadStep =>
         /\ Len(reads') = Len(reads) + 1
         /\ ~reads'[Len(reads')].ok
         /\ settles'[callNo] = 1
         /\ resume' = <<>>
         /\ tpc' = "rejected" /\ thumb' = <<>>]_vars
  /\ [](\A i \in 1..Len(reads) :
          (reads[i].ok /\ reads[i].n > 0) => Len(reads[i].result) = reads[i].n)
  /\ [](tpc = "rejected" => thumb = <<>>)

\* The socket closed after some, but not all, bytes of a call had arrived.
C22_Witness ==
  /\ tpc = "rejected" /\ sock = "closed" /\ reads # <<>>
  /\ LET r == reads[Len(reads)] IN
       ~r.ok /\ Len(sent) - r.at > 0 /\ Len(sent) - r.at < r.n

\* C23: a pending readExactly call always has its timer armed, the timer
\* firing rejects the call, and resolve or reject is invoked exactly once for
\* every call that is no longer pending and never for a pending one.
PendingCall(c) == c = callNo /\ want > 0

C24_FailureGivesEmptyResult ==
  gpc = "done" =>
    /\ gout.state = "resolved"
    /\ gfailed \in {"control", "connInfo", "socket"} =>
         (gout.buf = <<>> /\ gout.list = <<>>)

\* C24 (amended): getThumbnail and getThumbnailList never reject. A failed
\* getThumbnailList resolves to the empty list. getThumbnail resolves to the
\* empty buffer when the art lookup fails or does not list the photo; when
\* the get_thumbnail request, its conn_info or the data-channel read fails it
\* resolves to what getThumbnailAlternative returns, which is the empty
\* buffer unless the get_content fallback delivers image content.
C24_NeverRejects ==
  /\ gout.state # "rejected"
  /\ gpc = "done" =>
       /\ gout.state = "resolved"
       /\ (gkind = "list" /\ gfailed # "none") => gout.list = <<>>
       /\ (gkind = "list" /\ gfailed = "none") => gout.list = batch
       /\ (gkind = "get" /\ gfailed \in {"art", "absent"}) =>
            (gout.buf = <<>> /\ gfallback = "none")
       /\ (gkind = "get" /\ gfailed \in {"control", "connInfo", "socket"}) =>
            /\ gfallback # "none"
            /\ gfallback # "content" => gout.buf = <<>>
            /\ gfallback = "content" => gout.buf # <<>>
       /\ (gkind = "get" /\ gfailed = "none") =>
            (gout.buf = frame.payload /\ gout.buf # <<>>)

\* The data-channel read of getThumbnail failed and so did the fallback.
C24_Witness ==
  /\ gpc = "done" /\ gkind = "get" /\ gfailed = "socket" /\ tpc = "rejected"
  /\ gfallback = "throws" /\ gout = ReturnBuffer(<<>>)

\* C25: every retrieval opens at most one data-channel socket, a new one
\* that no earlier call listens on; readExactly calls listen only while the
\* retrieval reads; and when the read has settled, and so when the retrieval
\* has, the socket has been ended, destroyed or closed and no listener or
\* timer of a call is left.
SocketDone == sock \in {"ended", "destroyed", "closed", "errored"}

C25_OwnSocketEnded ==
  /\ [](opened <= getCalls)
  /\ [][opened' # opened =>
         /\ opened' = opened + 1 /\ gpc = "request" /\ sock # "open"
         /\ sock' = "open" /\ listeners' = {} /\ readTimers' = {} /\ sent' = <<>>]_vars
  /\ [](listeners # {} => (gpc = "read" /\ sock = "open"))
  /\ [](tpc \in {"resolved", "rejected"} =>
          (SocketDone /\ listeners = {} /\ readTimers = {}))
  /\ []((gpc = "done" /\ sock # "none") => SocketDone)

\* The second retrieval has read from a socket of its own, its read timed
\* out, and it has settled.
C25_Witness ==
  /\ gpc = "done" /\ opened = 2 /\ getCalls = 2 /\ tpc = "rejected" /\ sock = "ended"
  /\ reads # <<>> /\ ~reads[Len(reads)].ok

\* C26: a pass that reads the photos of, or uploads to, a Frame endpoint
\* whose initialize() has not completed fails at that point: reading the
\* lists throws, and no upload to the endpoint resolves.
UsesUninitializedFrame == ~frameInitialized /\ "frame" \in {pSrc, pDst}

C26_UseBeforeInitializeFails ==
  /\ [][(ppc = "fetch" /\ ppc' # "fetch" /\ UsesUninitializedFrame) =>
         ppc' = "thrown"]_vars
  /\ [][(Len(upCalls') = Len(upCalls) + 1 /\ pDst = "frame" /\ ~frameInitialized) =>
         ~upCalls'[Len(upCalls')].ok]_vars

\* C27: when processPhoto is given a photo that is marked deleted or whose
\* filename is in the handled set, it makes no download, upload or delete
\* call, leaves the handled set as it is, and the loop goes on with the next
\* photo of the batch (or ends after the last one).
AtSkippedPhoto ==
  /\ lpc = "process"
  /\ photos[idx].deleted \/ photos[idx].filename \in handledPhotos

C27_SkippedPhotoUntouched ==
  [][(AtSkippedPhoto /\ <<lpc, idx>>' # <<lpc, idx>>) =>
       /\ downloadCalls' = downloadCalls /\ uploadCalls' = uploadCalls
       /\ deleteCalls' = deleteCalls
       /\ handledPhotos' = handledPhotos /\ album' = album
       /\ failedOp' = failedOp
       /\ IF idx < Len(photos)
            THEN lpc' = "process" /\ idx' = idx + 1
            ELSE lpc' = "done"]_vars

\* An already handled photo was skipped and a later photo of the same batch
\* was downloaded.
C27_Witness ==
  \E i \in 1..Len(photos), j \in 1..Len(photos) :
    /\ i < j /\ idx >= j
    /\ ~photos[i].deleted /\ i \notin downloadCalls
    /\ j \in downloadCalls

\* C28: the handled set of a service instance is empty when the instance is
\* constructed; a photo handled or a clearHandledPhotos() on one instance
\* leaves the handled set of every other instance as it was; and
\* clearHandledPhotos() leaves the instance's own set empty.
HandledOf(s) == heap[handledRef[s]]

C28_HandledSetPerInstance ==
  /\ [][\A s \in Instances :
          (handledRef[s] = 0 /\ handledRef'[s] # 0) => heap'[handledRef'[s]] = {}]_vars
  /\ [][(opNo' # opNo /\ lastOp'.kind \in {"process", "clear"}) =>
         /\ \A t \in Instances \ {lastOp'.inst} :
              handledRef[t] # 0 => heap'[handledRef'[t]] = HandledOf(t)
         /\ lastOp'.kind = "clear" => heap'[handledRef'[lastOp'.inst]] = {}]_vars

\* Instance 2 has been cleared while instance 1 keeps the photos it handled.
C28_Witness ==
  /\ lastOp.kind = "clear" /\ lastOp.inst = 2
  /\ handledRef[1] # 0 /\ HandledOf(1) # {} /\ HandledOf(2) = {}
  /\ opNo >= 4

\* C29: the set getHandledPhotos() returns has the members of the handled
\* set and is no set of any instance: the caller adding to it or deleting
\* from it leaves the handled set of every instance, and so the photos a
\* later processPhoto skips, as they were.
C29_ReturnsCopy ==
  /\ [][(opNo' # opNo /\ lastOp'.kind = "get") =>
         /\ heap'[held'[Len(held')].ref] = HandledOf(lastOp'.inst)
         /\ \A t \in Instances : handledRef'[t] # held'[Len(held')].ref]_vars
  /\ [][(opNo' # opNo /\ lastOp'.kind \in {"callerAdd", "callerDelete"}) =>
         \A t \in Instances :
           handledRef[t] # 0 => heap'[handledRef'[t]] = HandledOf(t)]_vars

\* The caller deleted a photo from the set it was given and the service
\* still skipped that photo afterwards.
C29_Witness ==
  /\ lastOp.kind = "process" /\ lastOp.skipped
  /\ \E h \in 1..Len(held) :
       held[h].of = lastOp.inst /\ lastOp.file \notin heap[held[h].ref]

\* C30: when an initialization step of Application.start() throws, start()
\* rejects with the error of that step and does not call syncScheduler.
\* start(); the scheduler is started only when every step of this start()
\* has returned without throwing.
InitStepSettles == apc = "init" /\ Len(appLog') = Len(appLog) + 1

C30_SchedulerAfterInit ==
  /\ [][(InitStepSettles /\ appLog'[Len(appLog')].outcome = "throw") =>
         /\ apc' = "rejected"
         /\ appErr' = appLog'[Len(appLog')].step
         /\ schedStarts' = 0
         /\ schedVars' = schedVars]_vars
  /\ [](schedStarts > 0 =>
          /\ schedStarts = 1
          /\ Len(appLog) = Len(InitSteps(appKind))
          /\ \A k \in 1..Len(appLog) :
               appLog[k].step = InitSteps(appKind)[k] /\ appLog[k].outcome # "throw")
  /\ []((apc = "rejected" /\ appErr # "scheduler") => schedStarts = 0)
  /\ [][invocations' > invocations /\ apc \in {"idle", "init", "rejected", "stopped"} =>
         (apc = "init" /\ apc' = "schedStart"
            /\ appLog'[Len(appLog')].outcome # "throw")]_vars

\* The second step of a start() threw after the first had succeeded: start()
\* has rejected with that error and no run of the sync has begun.
C30_Witness ==
  /\ apc = "rejected" /\ Len(appLog) = 2 /\ appErr = appLog[2].step
  /\ appLog[1].outcome = "ok" /\ appLog[2].outcome = "throw"
  /\ schedStarts = 0 /\ invocations = 0

\* C31: the listing the handler sends has one entry for every art item the
\* device reported, in the device's order, whichever thumbnail retrievals
\* failed; the entry of an item whose retrieval threw or was empty has
\* thumbnail null, that of any other item carries its image; and once the
\* device's list is in, the request is answered with the listing.
C31_OneEntryPerArtItem ==
  (fpc = "responded" /\ hasFrameEndpoint) =>
    /\ artResponse.status = 200
    /\ Len(artResponse.art) = Len(artItems)
    /\ \A k \in 1..Len(artItems) :
         /\ artResponse.art[k].id = artItems[k]
         /\ thumbOutcome[k] \in {"empty", "throws"} => artResponse.art[k].thumbnail = "null"
         /\ thumbOutcome[k] = "data" => artResponse.art[k].thumbnail # "null"

\* A listing of three items was sent of which one retrieval threw, one was
\* empty and one delivered an image.
C31_Witness ==
  /\ fpc = "responded" /\ artResponse.status = 200 /\ Len(artItems) = 3
  /\ thumbOutcome[1] = "throws" /\ thumbOutcome[2] = "data" /\ thumbOutcome[3] = "empty"

\* C32: getThumbnail calls getThumbnailAlternative only after the socket
\* path has thrown (request, conn_info or data-channel read) or delivered an
\* empty buffer; when the socket path delivered a non-empty buffer that
\* buffer is returned and the alternative is not called; otherwise the
\* buffer of the alternative is returned, which is empty when it failed.
PrimaryDelivered == tpc = "resolved" /\ thumb # <<>>

C32_FallbackAfterPrimary ==
  /\ [][(gpc # "fallback" /\ gpc' = "fallback") =>
         /\ gkind = "get"
         /\ \/ gpc = "request"
            \/ gpc = "read" /\ tpc \in {"resolved", "rejected"} /\ ~PrimaryDelivered]_vars
  /\ [](gfallback # "none" => (gkind = "get" /\ ~PrimaryDelivered))
  /\ []((gpc = "done" /\ gkind = "get" /\ gfailed \notin {"art", "absent"}) =>
          IF PrimaryDelivered
            THEN gout = ReturnBuffer(thumb) /\ gfallback = "none"
            ELSE /\ gfallback # "none"
                 /\ gout.state = "resolved"
                 /\ gfallback = "content" => gout.buf # <<>>
                 /\ gfallback # "content" => gout.buf = <<>>)

\* The data-channel read failed and getThumbnail returned the image of the
\* alternative.
C32_Witness ==
  /\ gpc = "done" /\ gkind = "get" /\ tpc = "rejected" /\ gfallback = "content"
  /\ gout.state = "resolved" /\ gout.buf # <<>>

\* C33: resolve or reject is invoked at most once for every MFA request, a
\* pending request can still be settled (it is stored and its timer is set),
\* and once the 5-minute timer of a request has fired the request is settled.
C33_MfaRequestSettled ==
  \A r \in MfaIds :
    /\ mfaSettles[r] <= 1
    /\ (mfaPromise[r] # "none" /\ r \notin mfaTimers) =>
         mfaPromise[r] \in {"resolved", "rejected"}

\* C34: the results of the readExactly calls of one read that resolved, one
\* after the other, are a prefix of the bytes the socket has emitted: no
\* byte is dropped and none is returned twice.
RECURSIVE ResolvedBytes(_, _)
ResolvedBytes(log, k) ==
  IF k > Len(log) THEN <<>>
  ELSE (IF log[k].ok THEN log[k].result ELSE <<>>) \o ResolvedBytes(log, k + 1)

C34_ReadsContiguous ==
  LET bytes == ResolvedBytes(reads, 1)
  IN  Len(bytes) <= Len(sent) /\ bytes = SubSeq(sent, 1, Len(bytes))

\* C35: a scheduler has at most one armed interval at any time, and an armed
\* interval is the one this.timer references, so that one stop() cancels
\* every later tick.
C35_OneReferencedTimer ==
  /\ Cardinality(armed) <= 1
  /\ \A t \in armed : timer = t

\* C36: no run of the sync issues an operation on an endpoint that
\* Application.stop() has closed.
C36_NoOperationAfterClose ==
  \A k \in 1..Len(appOps) : ~appOps[k].closed

\* C37: within one pairwise pass no two upload calls that succeeded are for
\* the same photo id.
C37_UploadOncePerId ==
  \A k, l \in 1..Len(upCalls) :
    (k < l /\ upCalls[k].ok /\ upCalls[l].ok) => upCalls[k].id # upCalls[l].id

\* C38: an identifier enters the handled set of the legacy service only
\* as the file name of a photo whose upload succeeded since the last
\* clearHandledPhotos() (so that every identifier in the set is of such a
\* photo), and a step of a sync run never removes an identifier from the set.
C38_HandledWereUploaded ==
  /\ [][(handledPhotos' # handledPhotos /\ handledPhotos' # {}) =>
         /\ lpc = "delete" /\ idx \in uploadedOk
         /\ handledPhotos' = handledPhotos \cup {photos[idx].filename}
         /\ ~clearedSinceUpload]_vars
  /\ [][handledPhotos \subseteq handledPhotos' \/ clearHandledPhotos]_vars

\* C38 (amended): every identifier in the handled set is the file name of a
\* photo this instance uploaded successfully and whose delete attempt
\* returned; the set changes only when clearHandledPhotos() empties it or
\* when a run adds the file name of the photo at hand after its upload
\* succeeded in that run.
C38_HandledWereUploadedHere ==
  /\ [](\A f \in handledPhotos : \E p \in transferred : album[p].filename = f)
  /\ [][handledPhotos' # handledPhotos =>
         \/ clearHandledPhotos
         \/ /\ lpc = "delete" /\ idx \in uploadedOk
            /\ handledPhotos' = handledPhotos \cup {photos[idx].filename}]_vars

\* A run awaits the delete of a photo it has uploaded, in a second run of
\* the instance, and clearHandledPhotos() was called during that await: the
\* run marks the photo handled next, whatever delete() returns.
C38_Witness ==
  /\ lpc = "delete"
  /\ clearedSinceUpload
  /\ idx \in uploadedOk
  /\ syncCalls = 2

\* C39: when FrameEndpoint.initialize() resolves the endpoint is initialized
\* (a failure makes the call reject), and on an initialized endpoint the
\* call resolves and changes nothing.
FrameInitializeStep ==
  \/ ppc = "initSrc" /\ pSrc = "frame"
  \/ ppc = "initDst" /\ pDst = "frame"

C39_ResolvedMeansInitialized ==
  /\ [][(FrameInitializeStep /\ ppc' # ppc /\ ppc' # "thrown") => frameInitialized']_vars
  /\ [][(FrameInitializeStep /\ ppc' # ppc /\ frameInitialized) =>
         (ppc' # "thrown" /\ UNCHANGED <<ePhotos, frameInitialized, deviceArt>>)]_vars

\* C40: when a pass of an n-way run throws, runSync() catches the exception
\* and ends: no further pair of that run is begun, the uploads of the
\* earlier passes stay on the device, the in-progress flag is cleared and
\* the interval stays armed.
C40_ThrowingPassEndsTick ==
  /\ [][PassSettles(FALSE) => rpc' = "caught"]_vars
  /\ [][(rpc = "pass" /\ rpc' = "caught")
          => /\ passLog' = passLog
             /\ deviceArt' = deviceArt
             /\ ~isSyncing'
             /\ timer' = timer /\ armed' = armed]_vars
  /\ [][(rpc = "caught" /\ passLog' # passLog) => runCount' = runCount + 1]_vars
  /\ [](rpc = "caught" => ~isSyncing)

\* The second pass of a tick over three endpoints threw after the first had
\* uploaded: four pairs are left unrun and the interval is armed.
C40_Witness ==
  /\ rpc = "caught"
  /\ endpointCount = 3 /\ ~endpointsReplaced
  /\ Len(passLog) = 2
  /\ deviceArt # <<>>
  /\ timer # 0 /\ timer \in armed

====
